---- MODULE Spec2Model ----
(***************************************************************************)
(* Model of the property forms of rkviewer (src/rkviewer/forms.py):        *)
(* NodeForm, ReactionForm and CompartmentForm, the handlers they bind to   *)
(* their controls, and the Controller calls those handlers issue.          *)
(*                                                                         *)
(* Numbers are Python floats in the code.  They are modelled as exact      *)
(* rationals <<n, d>> in lowest terms with d > 0, so that the proportional *)
(* resize (a division by the bounding size) is computed, not approximated. *)
(***************************************************************************)
EXTENDS Integers, Sequences, FiniteSets, TLC

(***************************************************************************)
(* Bounds of the model.                                                    *)
(***************************************************************************)
\* number of edits (handler invocations and external moves) explored in one
\* behaviour of the geometry specification
MaxGeomEdits == 2
\* number of edits explored in one behaviour of the specification of all the
\* handlers of the three forms
MaxEdits == 1
\* number of button releases explored in one behaviour of the arrow designer
MaxDrops == 2
\* largest magnitude of a pixel coordinate given to projected_landing
MaxCoord == 30

(***************************************************************************)
(* Program constants.                                                      *)
(***************************************************************************)
\* settings['min_node_width'], settings['min_node_height']
MinNodeWidth == 2
MinNodeHeight == 2
\* settings['decimal_precision']
DecimalPrecision == 2
\* self.canvas.realsize (the canvas is square in the model)
CanvasSize == 12

(***************************************************************************)
(* Float arithmetic, as exact rationals.                                   *)
(***************************************************************************)
Abs(a) == IF a < 0 THEN -a ELSE a

RECURSIVE GCD(_, _)
GCD(a, b) == IF b = 0 THEN a ELSE GCD(b, a % b)

\* the rational n/d (d # 0) in lowest terms
Frac(n, d) ==
    LET s == IF d < 0 THEN -1 ELSE 1
        g == GCD(Abs(n), Abs(d))
    IN  <<(s * n) \div g, (s * d) \div g>>

R(n) == <<n, 1>>

RAdd(a, b) == Frac(a[1] * b[2] + b[1] * a[2], a[2] * b[2])
RSub(a, b) == Frac(a[1] * b[2] - b[1] * a[2], a[2] * b[2])
RMul(a, b) == Frac(a[1] * b[1], a[2] * b[2])
\* a / b; the caller has established b # 0 (Python raises ZeroDivisionError)
RDiv(a, b) == Frac(a[1] * b[2], a[2] * b[1])
RLt(a, b) == a[1] * b[2] < b[1] * a[2]
RLe(a, b) == a[1] * b[2] <= b[1] * a[2]
RMin(a, b) == IF RLt(b, a) THEN b ELSE a
RMax(a, b) == IF RLt(a, b) THEN b ELSE a
RIsZero(a) == a[1] = 0

RECURSIVE Pow10(_)
Pow10(p) == IF p = 0 THEN 1 ELSE 10 * Pow10(p - 1)

\* no_rzeros(num, precision): the number rounded to `precision` decimals
\* (trailing zeros carry no value, so the text denotes the rounded number)
no_rzeros(a, prec) ==
    LET q == Pow10(prec)
    IN  Frac((2 * a[1] * q + a[2]) \div (2 * a[2]), q)

(***************************************************************************)
(* Vec2 and Rect (rkviewer.canvas.geometry).                               *)
(***************************************************************************)
Vec2(x, y) == [x |-> x, y |-> y]
Vec2Zero == Vec2(R(0), R(0))
VAdd(a, b) == Vec2(RAdd(a.x, b.x), RAdd(a.y, b.y))
VSub(a, b) == Vec2(RSub(a.x, b.x), RSub(a.y, b.y))
elem_mul(a, b) == Vec2(RMul(a.x, b.x), RMul(a.y, b.y))
elem_div(a, b) == Vec2(RDiv(a.x, b.x), RDiv(a.y, b.y))
Rect(pos, size) == [position |-> pos, size |-> size]

\* the canvas bounds: Rect(Vec2(), self.canvas.realsize)
realsize == Vec2(R(CanvasSize), R(CanvasSize))
bounds == Rect(Vec2Zero, realsize)

\* clamp_rect_pos as it would be if it kept rect off the top and left edges only
clamp_rect_pos_lower(rect, bnd) ==
    Vec2(RMax(bnd.position.x, rect.position.x),
         RMax(bnd.position.y, rect.position.y))

\* clamp_rect_pos(rect, bounds): the position of rect translated minimally so
\* that rect lies within bounds
clamp_rect_pos(rect, bnd) ==
    LET lo == bnd.position
        hi == VSub(VAdd(bnd.position, bnd.size), rect.size)
    IN  Vec2(RMin(RMax(lo.x, rect.position.x), hi.x),
             RMin(RMax(lo.y, rect.position.y), hi.y))

\* clamp_rect_size(rect, botright): the size of rect shrunk so that its
\* bottom-right corner does not exceed botright, its position fixed
clamp_rect_size(rect, botright) ==
    Vec2(RSub(RMin(botright.x, RAdd(rect.position.x, rect.size.x)), rect.position.x),
         RSub(RMin(botright.y, RAdd(rect.position.y, rect.size.y)), rect.position.y))

RECURSIVE SeqMin(_), SeqMax(_)
SeqMin(s) == IF Len(s) = 1 THEN s[1] ELSE RMin(s[1], SeqMin(Tail(s)))
SeqMax(s) == IF Len(s) = 1 THEN s[1] ELSE RMax(s[1], SeqMax(Tail(s)))

\* get_bounding_rect(rects): the smallest rectangle containing every rect of
\* the non-empty list
get_bounding_rect(rects) ==
    LET n  == Len(rects)
        x0 == SeqMin([i \in 1..n |-> rects[i].position.x])
        y0 == SeqMin([i \in 1..n |-> rects[i].position.y])
        x1 == SeqMax([i \in 1..n |-> RAdd(rects[i].position.x, rects[i].size.x)])
        y1 == SeqMax([i \in 1..n |-> RAdd(rects[i].position.y, rects[i].size.y)])
    IN  Rect(Vec2(x0, y0), Vec2(RSub(x1, x0), RSub(y1, y0)))

\* Node.rect
NodeRect(n) == Rect(n.position, n.size)

\* get_nodes_by_idx(nodes, selected_idx): the nodes whose index is selected,
\* in list order
get_nodes_by_idx(ns, sel) ==
    SelectSeq(ns, LAMBDA n : n.index \in sel)

\* DesignerWindow.csize: the side of a grid cell, in pixels
csize == 20
\* DesignerWindow.radius: how near the pointer must be to a point to hover it
radius == 12

(***************************************************************************)
(* Text of the paired-number controls.  A text is the list of its          *)
(* comma-separated fields; a field either reads as a float or does not.    *)
(***************************************************************************)
Num(n) == [num |-> TRUE, val |-> R(n)]
NumR(r) == [num |-> TRUE, val |-> r]
Junk == [num |-> FALSE, val |-> R(0)]
PairText(x, y) == <<Num(x), Num(y)>>
\* the text '' (one field, not a number)
EmptyText == <<Junk>>

\* parse_num_pair(text): the pair of floats of a text "X,Y", or None
parse_num_pair(text) ==
    IF Len(text) # 2 THEN [ok |-> FALSE, v |-> Vec2Zero]
    ELSE IF ~text[1].num \/ ~text[2].num THEN [ok |-> FALSE, v |-> Vec2Zero]
    ELSE [ok |-> TRUE, v |-> Vec2(text[1].val, text[2].val)]

\* the text '{} , {}'.format(no_rzeros(x, prec), no_rzeros(y, prec))
FormatPair(v, prec) == <<NumR(no_rzeros(v.x, prec)), NumR(no_rzeros(v.y, prec))>>

\* _ChangePairValue(ctrl, new_val, prec): the text of ctrl afterwards.
\* Vec2(None) is the zero vector, so an unparseable old text compares as (0, 0).
ChangePairValue(old_text, new_val, prec) ==
    LET old_val == parse_num_pair(old_text).v
    IN  IF old_val # new_val THEN FormatPair(new_val, prec) ELSE old_text

(***************************************************************************)
(* State.                                                                  *)
(***************************************************************************)
VARIABLES
    form,           \* the form under analysis: "node", "reaction", "compartment"
    msw,            \* on_msw(): the platform has separate alpha fields
    nodes,          \* NodeForm._nodes
    selected_idx,   \* EditPanelForm._selected_idx
    bounding_rect,  \* NodeForm._bounding_rect (isNone: it is None)
    self_changes,   \* EditPanelForm._self_changes
    badges,         \* control -> its validation badge is shown (invalid)
    pos_text,       \* text of pos_ctrl
    size_text,      \* text of size_ctrl
    reactions,      \* ReactionForm._reactions
    compartments,   \* CompartmentForm._compartments
    stoich_reai,    \* the reaction the stoichiometry controls were made for (-1: none)
    model,          \* the Controller's nodes
    rmodel,         \* the Controller's reactions
    cmodel,         \* the Controller's compartments
    group_depth,    \* the Controller's open groups
    pending,        \* the Controller has yet to notify the form of a change
    calls,          \* what the last operation issued, in order
    fields,         \* what UpdateAllFields last put into the other controls
    points,         \* DesignerWindow.arrow_tip.points (grid cells)
    hover_idx,      \* DesignerWindow.hover_idx
    dragged_point,  \* DesignerWindow.dragged_point (pixels), or None
    dragging,       \* DesignerWindow.dragging
    landing,        \* what projected_landing last returned, or None
    pointer,        \* evt.GetPosition() of the last pointer event (pixels)
    shared,         \* DesignerWindow.arrow_tip is the object ArrowDesigner.arrow_tip
    kept,           \* the points of ArrowDesigner.arrow_tip once it is not shared
    saved,          \* the points last passed to api.set_arrow_tip
    typed,          \* evt.GetString() of the last text handler
    typed_id,       \* evt.GetString() of the last identifier handler
    changed,        \* whether the last handler changed the Controller's model
    raised,         \* the exception the last handler ended with ("" if none)
    last,           \* the last operation
    repopulated,    \* the last operation ran UpdateAllFields
    budget          \* edits (handler invocations, external moves) still explored

vars == <<form, msw, nodes, selected_idx, bounding_rect, self_changes, badges,
          pos_text, size_text, fields, points, hover_idx, dragged_point, dragging,
          landing, pointer, shared, kept, saved, reactions, compartments, stoich_reai, model,
          rmodel, cmodel, group_depth, pending, calls, typed, typed_id, changed,
          raised, last, repopulated, budget>>

\* the state of the reaction and compartment forms and of their entities
others == <<reactions, compartments, stoich_reai, rmodel, cmodel>>

\* the state of the arrow designer's window
designer == <<points, hover_idx, dragged_point, dragging, landing, pointer>>

\* the state of the ArrowDesigner plugin around the designer's window
plugin == <<shared, kept, saved>>

\* the state of the forms and of the Controller
panel == <<form, msw, nodes, selected_idx, bounding_rect, self_changes, badges,
           pos_text, size_text, fields, reactions, compartments, stoich_reai,
           model, rmodel, cmodel, group_depth, pending, calls, typed, typed_id,
           changed, repopulated>>

NoneRect == [isNone |-> TRUE, rect |-> Rect(Vec2Zero, Vec2Zero)]
SomeRect(r) == [isNone |-> FALSE, rect |-> r]

Colour(rgb, alpha) == [rgb |-> rgb, alpha |-> alpha]

MkNode(i, id, px, py, w, h, fill, border, bw) ==
    [index |-> i, id_ |-> id, position |-> Vec2(R(px), R(py)),
     size |-> Vec2(R(w), R(h)), fill_color |-> fill, border_color |-> border,
     border_width |-> R(bw)]

NodeIdx == {0, 1, 2}
Ctrls == {"id", "pos", "size", "fill_alpha", "border_alpha", "border_width",
          "stroke_width", "src_stoich", "dest_stoich"}

(***************************************************************************)
(* The Controller, as the forms use it.                                    *)
(***************************************************************************)
\* one entry of the log of a handler: a Controller call (or a posted event),
\* with the value of _self_changes when it was issued
Call(fn, idx, vec, val, str, flag) ==
    [fn |-> fn, idx |-> idx, idx2 |-> -1, vec |-> vec, val |-> val, str |-> str,
     flag |-> flag, ok |-> TRUE]
start_group(flag) == Call("start_group", -1, Vec2Zero, R(0), "", flag)
end_group(flag) == Call("end_group", -1, Vec2Zero, R(0), "", flag)
move_node(idx, pos, flag) == Call("move_node", idx, pos, R(0), "", flag)
set_node_size(idx, size, flag) == Call("set_node_size", idx, size, R(0), "", flag)
post_DidMoveNodesEvent(offset, flag) ==
    Call("DidMoveNodesEvent", -1, offset, R(0), "", flag)

\* a call with a number (an opacity, a width) or the RGB of a colour
SetNum(fn, idx, val, flag) == Call(fn, idx, Vec2Zero, val, "", flag)
\* a call with a string (an identifier, a rate law)
SetStr(fn, idx, str, flag) == Call(fn, idx, Vec2Zero, R(0), str, flag)
\* a rename call the Controller answers with False
Refused(c) == [c EXCEPT !.ok = FALSE]
\* set_src_node_stoich / set_dest_node_stoich
SetStoich(fn, reai, nodei, val, flag) ==
    [Call(fn, reai, Vec2Zero, val, "", flag) EXCEPT !.idx2 = nodei]

GroupCalls == {"start_group", "end_group"}
NonController == {"DidMoveNodesEvent"}
IsMutation(c) == c.fn \notin (GroupCalls \cup NonController)

\* rename_*: whether the Controller accepts the identifier (not empty, not
\* the identifier of an entity of the list m)
rename_ok(m, new_id) == new_id # "" /\ \A i \in DOMAIN m : m[i].id_ # new_id

\* the Controller's nodes after one call
ApplyCall(m, c) ==
    [i \in DOMAIN m |->
        IF m[i].index # c.idx THEN m[i]
        ELSE IF c.fn = "move_node" THEN [m[i] EXCEPT !.position = c.vec]
        ELSE IF c.fn = "set_node_size" THEN [m[i] EXCEPT !.size = c.vec]
        ELSE IF c.fn = "rename_node" /\ c.ok /\ rename_ok(m, c.str)
             THEN [m[i] EXCEPT !.id_ = c.str]
        ELSE IF c.fn = "set_node_fill_rgb"
             THEN [m[i] EXCEPT !.fill_color.rgb = c.val[1]]
        ELSE IF c.fn = "set_node_fill_alpha"
             THEN [m[i] EXCEPT !.fill_color.alpha = c.val[1]]
        ELSE IF c.fn = "set_node_border_rgb"
             THEN [m[i] EXCEPT !.border_color.rgb = c.val[1]]
        ELSE IF c.fn = "set_node_border_alpha"
             THEN [m[i] EXCEPT !.border_color.alpha = c.val[1]]
        ELSE IF c.fn = "set_node_border_width"
             THEN [m[i] EXCEPT !.border_width = c.val]
        ELSE m[i]]

\* the Controller's reactions after one call
ApplyCallR(m, c) ==
    [i \in DOMAIN m |->
        IF m[i].index # c.idx THEN m[i]
        ELSE IF c.fn = "rename_reaction" /\ c.ok /\ rename_ok(m, c.str)
             THEN [m[i] EXCEPT !.id_ = c.str]
        ELSE IF c.fn = "set_reaction_line_thickness"
             THEN [m[i] EXCEPT !.thickness = c.val]
        ELSE IF c.fn = "set_reaction_fill_rgb"
             THEN [m[i] EXCEPT !.fill_color.rgb = c.val[1]]
        ELSE IF c.fn = "set_reaction_fill_alpha"
             THEN [m[i] EXCEPT !.fill_color.alpha = c.val[1]]
        ELSE IF c.fn = "set_reaction_ratelaw" THEN [m[i] EXCEPT !.rate_law = c.str]
        ELSE IF c.fn = "set_src_node_stoich" /\ m[i].src = c.idx2
             THEN [m[i] EXCEPT !.src_stoich = c.val]
        ELSE IF c.fn = "set_dest_node_stoich" /\ m[i].dest = c.idx2
             THEN [m[i] EXCEPT !.dest_stoich = c.val]
        ELSE m[i]]

\* the Controller's compartments after one call
ApplyCallC(m, c) ==
    [i \in DOMAIN m |->
        IF m[i].index = c.idx /\ c.fn = "rename_compartment" /\ rename_ok(m, c.str)
        THEN [m[i] EXCEPT !.id_ = c.str] ELSE m[i]]

RECURSIVE ApplyCalls(_, _)
ApplyCalls(m, cs) ==
    IF cs = <<>> THEN m ELSE ApplyCalls(ApplyCall(m, Head(cs)), Tail(cs))

RECURSIVE ApplyCallsR(_, _)
ApplyCallsR(m, cs) ==
    IF cs = <<>> THEN m ELSE ApplyCallsR(ApplyCallR(m, Head(cs)), Tail(cs))

RECURSIVE ApplyCallsC(_, _)
ApplyCallsC(m, cs) ==
    IF cs = <<>> THEN m ELSE ApplyCallsC(ApplyCallC(m, Head(cs)), Tail(cs))

RECURSIVE DepthAfter(_, _)
DepthAfter(d, cs) ==
    IF cs = <<>> THEN d
    ELSE DepthAfter(IF Head(cs).fn = "start_group" THEN d + 1
                    ELSE IF Head(cs).fn = "end_group" THEN d - 1
                    ELSE d, Tail(cs))

\* the Controller has something to notify the views of: a mutation call it
\* did not refuse
Notifies(cs) == \E i \in DOMAIN cs : IsMutation(cs[i]) /\ cs[i].ok

(***************************************************************************)
(* Aggregation of the selected entities' properties into one field value.  *)
(***************************************************************************)
TheOne(S) == CHOOSE x \in S : TRUE

\* the text of a float control: a number, or '?'
FloatText(v) == [mixed |-> FALSE, val |-> v]
Unknown == [mixed |-> TRUE, val |-> R(0)]

\* Optional[int]
None == [none |-> TRUE, v |-> 0]
Some(a) == [none |-> FALSE, v |-> a]

\* wx.BLACK
Black == Colour(0, 255)

\* _GetMultiColor as it would be if Windows compared whole colours too
GetMultiColorJoint(colors) ==
    LET rgbaset == {colors[i] : i \in DOMAIN colors}
    IN  [colour |-> IF Cardinality(rgbaset) = 1 THEN TheOne(rgbaset) ELSE Black,
         alpha  |-> IF msw /\ Cardinality(rgbaset) = 1
                    THEN Some(TheOne(rgbaset).alpha) ELSE None]

\* _GetMultiColor(colors): the colour and, on Windows, the opacity to show
GetMultiColor(colors) ==
    IF msw
    THEN LET rgbset   == {colors[i].rgb : i \in DOMAIN colors}
             alphaset == {colors[i].alpha : i \in DOMAIN colors}
         IN  [colour |-> IF Cardinality(rgbset) = 1
                         THEN Colour(TheOne(rgbset), Black.alpha) ELSE Black,
              alpha  |-> IF Cardinality(alphaset) = 1 THEN Some(TheOne(alphaset))
                         ELSE None]
    ELSE LET rgbaset == {colors[i] : i \in DOMAIN colors}
         IN  [colour |-> IF Cardinality(rgbaset) = 1 THEN TheOne(rgbaset) ELSE Black,
              alpha  |-> None]

\* _GetMultiFloatText(values, precision)
GetMultiFloatText(values, prec) ==
    IF Cardinality(values) = 1 THEN FloatText(no_rzeros(TheOne(values), prec))
    ELSE Unknown

\* _AlphaToText(alpha, prec)
AlphaToText(alpha, prec) ==
    IF alpha.none THEN Unknown ELSE FloatText(no_rzeros(Frac(alpha.v, 255), prec))

\* the order of Python's string comparison on the identifiers in use
Alphabet == <<"a", "b", "c", "r", "z">>
Rank(id) == CHOOSE i \in DOMAIN Alphabet : Alphabet[i] = id

\* sorted(ids)
RECURSIVE sorted(_)
sorted(ids) ==
    IF ids = <<>> THEN <<>>
    ELSE LET rest == sorted(Tail(ids))
             k == Cardinality({i \in DOMAIN rest : Rank(rest[i]) < Rank(Head(ids))})
         IN  SubSeq(rest, 1, k) \o <<Head(ids)>> \o SubSeq(rest, k + 1, Len(rest))

\* the identifiers of the entities es, in list order
IdsOf(es) == [i \in DOMAIN es |-> es[i].id_]

\* [r for r in self._reactions if r.index in self._selected_idx]
SelectedOf(es, sel) ==
    LET F[i \in 0..Len(es)] ==
            IF i = 0 THEN <<>>
            ELSE IF es[i].index \in sel THEN Append(F[i - 1], es[i]) ELSE F[i - 1]
    IN  F[Len(es)]

\* the controls before the first UpdateAllFields
NoFields ==
    [id_text |-> <<>>, fill |-> Black, fill_alpha |-> Unknown, border |-> Black,
     border_alpha |-> Unknown, width_text |-> Unknown, ratelaw_text |-> ""]

\* the controls after NodeForm.UpdateAllFields (lines 712-750); the opacity
\* controls exist on Windows only
NodeFields(sn, old) ==
    LET single == Len(sn) = 1
        mf == GetMultiColor([i \in DOMAIN sn |-> sn[i].fill_color])
        mb == GetMultiColor([i \in DOMAIN sn |-> sn[i].border_color])
        fill_alpha == IF single THEN Some(sn[1].fill_color.alpha) ELSE mf.alpha
        border_alpha == IF single THEN Some(sn[1].border_color.alpha) ELSE mb.alpha
    IN  [id_text |-> IF single THEN <<sn[1].id_>> ELSE sorted(IdsOf(sn)),
         fill |-> IF single THEN sn[1].fill_color ELSE mf.colour,
         fill_alpha |-> IF msw THEN AlphaToText(fill_alpha, DecimalPrecision)
                        ELSE old.fill_alpha,
         border |-> IF single THEN sn[1].border_color ELSE mb.colour,
         border_alpha |-> IF msw THEN AlphaToText(border_alpha, DecimalPrecision)
                          ELSE old.border_alpha,
         width_text |-> GetMultiFloatText({sn[i].border_width : i \in DOMAIN sn},
                                          DecimalPrecision),
         ratelaw_text |-> old.ratelaw_text]

\* the controls after ReactionForm.UpdateAllFields (lines 952-986)
ReactionFields(rs, sel, old) ==
    LET sr == SelectedOf(rs, sel)
        single == Cardinality(sel) = 1
        mf == GetMultiColor([i \in DOMAIN sr |-> sr[i].fill_color])
        fill_alpha == IF single THEN Some(sr[1].fill_color.alpha) ELSE mf.alpha
    IN  [old EXCEPT
           !.id_text = sorted(IdsOf(sr)),
           !.fill = IF single THEN sr[1].fill_color ELSE mf.colour,
           !.fill_alpha = IF msw THEN AlphaToText(fill_alpha, DecimalPrecision)
                          ELSE old.fill_alpha,
           !.width_text = GetMultiFloatText({sr[i].thickness : i \in DOMAIN sr},
                                            DecimalPrecision),
           !.ratelaw_text = IF single THEN sr[1].rate_law ELSE "multiple"]

\* the controls after CompartmentForm.UpdateAllFields (lines 1043-1051)
CompartmentFields(cs, sel, old) == [old EXCEPT !.id_text = IdsOf(SelectedOf(cs, sel))]

(***************************************************************************)
(* NodeForm: refresh and selection.                                        *)
(***************************************************************************)
Rects(ns) == [i \in DOMAIN ns |-> NodeRect(ns[i])]

\* NodeForm.UpdateAllFields on the node list ns, selection sel (not empty),
\* stored bounding rectangle br and control texts ptext, stext: the fields
\* it assigns (it also sets _self_changes to False)
UpdateAllFields(ns, sel, br, ptext, stext) ==
    LET sn   == get_nodes_by_idx(ns, sel)
        br2  == IF Cardinality(sel) = 1 THEN br
                ELSE SomeRect(get_bounding_rect(Rects(sn)))
        pos  == IF Cardinality(sel) = 1 THEN sn[1].position ELSE br2.rect.position
        size == IF Cardinality(sel) = 1 THEN sn[1].size ELSE br2.rect.size
    IN  [bounding_rect |-> br2,
         pos_text  |-> ChangePairValue(ptext, pos, DecimalPrecision),
         size_text |-> ChangePairValue(stext, size, DecimalPrecision),
         fields    |-> NodeFields(sn, fields)]

\* a selection, or a refresh the form did not cause, is no handler of a
\* control: it issues no call, reads no text and ends without an exception
NoHandler ==
    /\ calls' = <<>>
    /\ typed' = EmptyText
    /\ typed_id' = ""
    /\ changed' = FALSE
    /\ raised' = ""

\* Update as it would be if it did not consult _self_changes
UpdateIgnoringFlag(ns) ==
    LET repop == selected_idx # {}
        f == UpdateAllFields(ns, selected_idx, bounding_rect, pos_text, size_text)
    IN  /\ nodes' = ns
        /\ repopulated' = repop
        /\ bounding_rect' = IF repop THEN f.bounding_rect ELSE bounding_rect
        /\ pos_text' = IF repop THEN f.pos_text ELSE pos_text
        /\ size_text' = IF repop THEN f.size_text ELSE size_text
        /\ UNCHANGED <<designer, plugin>>
        /\ fields' = IF repop THEN f.fields ELSE fields
        /\ badges' = [c \in Ctrls |-> FALSE]
        /\ self_changes' = FALSE

\* EditPanelForm.Update, after NodeForm.UpdateNodes stored the list ns
Update(ns) ==
    LET repop == selected_idx # {} /\ ~self_changes
        f == UpdateAllFields(ns, selected_idx, bounding_rect, pos_text, size_text)
    IN  /\ nodes' = ns
        /\ repopulated' = repop
        /\ bounding_rect' = IF repop THEN f.bounding_rect ELSE bounding_rect
        /\ pos_text' = IF repop THEN f.pos_text ELSE pos_text
        /\ size_text' = IF repop THEN f.size_text ELSE size_text
        /\ UNCHANGED <<designer, plugin>>
        /\ fields' = IF repop THEN f.fields ELSE fields
        /\ badges' = [c \in Ctrls |-> FALSE]
        /\ self_changes' = FALSE

\* the stoichiometry controls ReactionForm.UpdateAllFields leaves: those of
\* the selected reaction, none when several are selected
StoichFields(sel) == IF Cardinality(sel) = 1 THEN CHOOSE r \in sel : TRUE ELSE -1

\* the badges after _UpdateStoichFields destroyed the stoichiometry controls
StoichBadgesDropped(b) == [b EXCEPT !["src_stoich"] = FALSE, !["dest_stoich"] = FALSE]

\* EditPanelForm.Update, after ReactionForm.UpdateReactions stored the list rs
ReactionUpdate(rs) ==
    LET repop == selected_idx # {} /\ ~self_changes
    IN  /\ reactions' = rs
        /\ repopulated' = repop
        /\ stoich_reai' = IF repop THEN StoichFields(selected_idx) ELSE stoich_reai
        /\ UNCHANGED <<designer, plugin>>
        /\ fields' = IF repop THEN ReactionFields(rs, selected_idx, fields) ELSE fields
        /\ badges' = [c \in Ctrls |-> FALSE]
        /\ self_changes' = FALSE

\* EditPanelForm.Update, after CompartmentForm.UpdateCompartments stored cs
CompartmentUpdate(cs) ==
    /\ compartments' = cs
    /\ repopulated' = (selected_idx # {} /\ ~self_changes)
    /\ UNCHANGED <<designer, plugin>>
    /\ fields' = IF selected_idx # {} /\ ~self_changes
                 THEN CompartmentFields(cs, selected_idx, fields) ELSE fields
    /\ badges' = [c \in Ctrls |-> FALSE]
    /\ self_changes' = FALSE

\* the Controller notifies the form of the change the last handler made:
\* NodeForm.UpdateNodes / ReactionForm.UpdateReactions with the Controller's
\* list (no handler of CompartmentForm gets as far as a Controller call)
EchoRefresh ==
    /\ pending
    /\ IF form = "node"
       THEN Update(model) /\ UNCHANGED <<reactions, stoich_reai>>
       ELSE /\ ReactionUpdate(rmodel)
            /\ UNCHANGED <<nodes, bounding_rect, pos_text, size_text>>
    /\ pending' = FALSE
    /\ last' = "Update"
    /\ UNCHANGED <<form, msw, selected_idx, model, rmodel, cmodel, compartments,
                   group_depth, calls, typed, typed_id, changed, raised, budget>>

\* a change the form did not initiate (canvas drag, undo) moves node i, or
\* changes nothing (moved = FALSE), and the form is notified
ExternalRefresh(i, p, moved) ==
    /\ form = "node"
    /\ ~pending
    /\ moved => budget > 0
    /\ model' = IF moved THEN [k \in DOMAIN model |->
                     IF model[k].index = i THEN [model[k] EXCEPT !.position = p]
                     ELSE model[k]]
                 ELSE model
    /\ Update(model')
    /\ last' = "Update"
    /\ budget' = IF moved THEN budget - 1 ELSE budget
    /\ NoHandler
    /\ UNCHANGED <<form, msw, selected_idx, group_depth, pending, others>>

\* NodeForm.UpdateSelection(sel)
UpdateSelection(sel) ==
    /\ form = "node"
    /\ ~pending
    /\ selected_idx' = sel
    /\ LET f == UpdateAllFields(nodes, sel, bounding_rect, EmptyText, size_text)
       IN  /\ repopulated' = (sel # {})
           /\ bounding_rect' = IF sel # {} THEN f.bounding_rect ELSE bounding_rect
           /\ pos_text' = IF sel # {} THEN f.pos_text ELSE pos_text
           /\ size_text' = IF sel # {} THEN f.size_text ELSE size_text
           /\ UNCHANGED <<designer, plugin>>
           /\ fields' = IF sel # {} THEN f.fields ELSE fields
           /\ self_changes' = IF sel # {} THEN FALSE ELSE self_changes
    /\ last' = "UpdateSelection"
    /\ NoHandler
    /\ UNCHANGED <<form, msw, nodes, badges, model, group_depth, pending, budget,
                   others>>

(***************************************************************************)
(* NodeForm: the position and size handlers.                               *)
(***************************************************************************)
\* what every handler leaves behind: the form's nodes ns2, _self_changes
\* sc2, the calls cs it issued (applied by the Controller, which notifies
\* the form once a change is made and no group is open), the badges bad2
\* and the exception exc it ended with
Handler(op, ns2, sc2, cs, bad2, exc) ==
    /\ nodes' = ns2
    /\ self_changes' = sc2
    /\ calls' = cs
    /\ badges' = bad2
    /\ raised' = exc
    /\ model' = ApplyCalls(model, cs)
    /\ rmodel' = ApplyCallsR(rmodel, cs)
    /\ cmodel' = ApplyCallsC(cmodel, cs)
    /\ changed' = (<<model', rmodel', cmodel'>> # <<model, rmodel, cmodel>>)
    /\ group_depth' = DepthAfter(group_depth, cs)
    /\ pending' = (Notifies(cs) /\ group_depth' = 0)
    /\ last' = op
    /\ repopulated' = FALSE
    /\ budget' = budget - 1
    /\ UNCHANGED <<form, msw, selected_idx, bounding_rect, reactions, compartments,
                   stoich_reai, fields, designer, plugin>>

\* _SetValidationState(good, ctrl_id)
SetValidationState(good, ctrl) == [badges EXCEPT ![ctrl] = ~good]

\* a handler that changes nothing but a badge
Rejected(op, ctrl) ==
    Handler(op, nodes, self_changes, <<>>, SetValidationState(FALSE, ctrl), "")

\* a handler that ends with an exception before it changed anything
Raises(op, exc) == Handler(op, nodes, self_changes, <<>>, badges, exc)

SetPos(ns, idx, p) ==
    [i \in DOMAIN ns |-> IF ns[i].index = idx THEN [ns[i] EXCEPT !.position = p]
                         ELSE ns[i]]

\* _OnPosText, one node selected, the edit goes ahead (lines 568-573)
SinglePosEdit(ns, node, clamped) ==
    LET ns2   == SetPos(ns, node.index, clamped)
        node2 == [node EXCEPT !.position = clamped]
    IN  [nodes |-> ns2, sc |-> TRUE,
         calls |-> <<start_group(TRUE),
                     post_DidMoveNodesEvent(VSub(clamped, node2.position), TRUE),
                     move_node(node2.index, node2.position, TRUE),
                     end_group(TRUE)>>]

\* the multi-node move as it would be if it did not open a group
MultiPosEditNoGroup(ns, sel, br, clamped) ==
    LET offset == VSub(clamped, br.position)
        ns2 == [i \in DOMAIN ns |->
                  IF ns[i].index \in sel
                  THEN [ns[i] EXCEPT !.position = VAdd(ns[i].position, offset)]
                  ELSE ns[i]]
        sn2 == get_nodes_by_idx(ns2, sel)
    IN  [nodes |-> ns2, sc |-> TRUE,
         calls |-> <<post_DidMoveNodesEvent(offset, TRUE)>>
                   \o [i \in DOMAIN sn2 |->
                          move_node(sn2[i].index, sn2[i].position, TRUE)]]

\* _OnPosText, several nodes selected, the edit goes ahead (lines 577-585)
MultiPosEdit(ns, sel, br, clamped) ==
    LET offset == VSub(clamped, br.position)
        ns2 == [i \in DOMAIN ns |->
                  IF ns[i].index \in sel
                  THEN [ns[i] EXCEPT !.position = VAdd(ns[i].position, offset)]
                  ELSE ns[i]]
        sn2 == get_nodes_by_idx(ns2, sel)
    IN  [nodes |-> ns2, sc |-> TRUE,
         calls |-> <<start_group(TRUE), post_DidMoveNodesEvent(offset, TRUE)>>
                   \o [i \in DOMAIN sn2 |->
                          move_node(sn2[i].index, sn2[i].position, TRUE)]
                   \o <<end_group(TRUE)>>]

\* NodeForm._OnPosText: the user typed text into pos_ctrl
OnPosText(text) ==
    /\ form = "node"
    /\ ~pending
    /\ budget > 0
    /\ pos_text' = text
    /\ typed' = text
    /\ UNCHANGED typed_id
    /\ UNCHANGED size_text
    /\ LET xy  == parse_num_pair(text)
           pos == xy.v
           sn  == get_nodes_by_idx(nodes, selected_idx)
       IN  IF ~xy.ok THEN Rejected("OnPosText", "pos")
           ELSE IF RLt(pos.x, R(0)) \/ RLt(pos.y, R(0))
           THEN Rejected("OnPosText", "pos")
           ELSE IF Len(sn) = 1
           THEN LET node    == sn[1]
                    clamped == clamp_rect_pos(Rect(pos, node.size), bounds)
                    e       == SinglePosEdit(nodes, node, clamped)
                IN  IF node.position # clamped \/ pos # clamped
                    THEN Handler("OnPosText", e.nodes, e.sc, e.calls,
                                 SetValidationState(TRUE, "pos"), "")
                    ELSE Handler("OnPosText", nodes, self_changes, <<>>,
                                 SetValidationState(TRUE, "pos"), "")
           ELSE IF bounding_rect.isNone
           THEN Raises("OnPosText", "AttributeError")
           ELSE LET br      == bounding_rect.rect
                    clamped == clamp_rect_pos(Rect(pos, br.size), bounds)
                    e       == MultiPosEdit(nodes, selected_idx, br, clamped)
                IN  IF br.position # pos \/ pos # clamped
                    THEN Handler("OnPosText", e.nodes, e.sc, e.calls,
                                 SetValidationState(TRUE, "pos"), "")
                    ELSE Handler("OnPosText", nodes, self_changes, <<>>,
                                 SetValidationState(TRUE, "pos"), "")

\* the minimum test as it would be if it looked at the width only
BelowMinWidthOnly(size) == RLt(size.x, R(MinNodeWidth))

\* the test of line 604: the size is below the configured minimum
BelowMin(size) ==
    RLt(size.x, R(MinNodeWidth)) \/ RLt(size.y, R(MinNodeHeight))

\* the limit test as it would be if it rejected only sizes below the limit
\* in both components
BelowLimitBoth(size, limit) ==
    RLt(size.x, limit.x) /\ RLt(size.y, limit.y)

\* the test of line 620: the size is below the limit of the bounding box
BelowLimit(size, limit) ==
    RLt(size.x, limit.x) \/ RLt(size.y, limit.y)

\* the limit of lines 615-618: the bounding size scaled by min_ratio
SizeLimit(sn, br) ==
    LET min_nw == SeqMin([i \in DOMAIN sn |-> sn[i].size.x])
        min_nh == SeqMin([i \in DOMAIN sn |-> sn[i].size.y])
        min_ratio == Vec2(RDiv(R(MinNodeWidth), min_nw),
                          RDiv(R(MinNodeHeight), min_nh))
    IN  elem_mul(br.size, min_ratio)

\* _OnSizeText, one node selected, the edit goes ahead (lines 611-613)
SingleSizeEdit(node, clamped) ==
    [sc |-> TRUE,
     calls |-> <<set_node_size(node.index, Vec2(clamped.x, clamped.y), TRUE)>>]

\* the multi-node resize as it would be if the scaled relative position
\* were not put back on the bounding origin
MultiSizeEditNoOrigin(sn, br, clamped) ==
    LET ratio == elem_div(clamped, br.size)
        pair(node) ==
            LET rel_pos == VSub(node.position, br.position)
                new_pos == elem_mul(rel_pos, ratio)
            IN  <<move_node(node.index, new_pos, TRUE),
                  set_node_size(node.index, elem_mul(node.size, ratio), TRUE)>>
        body[i \in 0..Len(sn)] ==
            IF i = 0 THEN <<>> ELSE body[i - 1] \o pair(sn[i])
    IN  [sc |-> TRUE,
         calls |-> <<start_group(TRUE)>> \o body[Len(sn)] \o <<end_group(TRUE)>>]

\* the multi-node resize as it would be if each node were resized before it
\* is moved
MultiSizeEditResizeFirst(sn, br, clamped) ==
    LET ratio == elem_div(clamped, br.size)
        pair(node) ==
            LET rel_pos == VSub(node.position, br.position)
                new_pos == VAdd(br.position, elem_mul(rel_pos, ratio))
            IN  <<set_node_size(node.index, elem_mul(node.size, ratio), TRUE),
                  move_node(node.index, new_pos, TRUE)>>
        body[i \in 0..Len(sn)] ==
            IF i = 0 THEN <<>> ELSE body[i - 1] \o pair(sn[i])
    IN  [sc |-> TRUE,
         calls |-> <<start_group(TRUE)>> \o body[Len(sn)] \o <<end_group(TRUE)>>]

\* _OnSizeText, several nodes selected, the edit goes ahead (lines 629-638)
MultiSizeEdit(sn, br, clamped) ==
    LET ratio == elem_div(clamped, br.size)
        pair(node) ==
            LET rel_pos == VSub(node.position, br.position)
                new_pos == VAdd(br.position, elem_mul(rel_pos, ratio))
            IN  <<move_node(node.index, new_pos, TRUE),
                  set_node_size(node.index, elem_mul(node.size, ratio), TRUE)>>
        body[i \in 0..Len(sn)] ==
            IF i = 0 THEN <<>> ELSE body[i - 1] \o pair(sn[i])
    IN  [sc |-> TRUE,
         calls |-> <<start_group(TRUE)>> \o body[Len(sn)] \o <<end_group(TRUE)>>]

\* NodeForm._OnSizeText: the user typed text into size_ctrl
OnSizeText(text) ==
    /\ form = "node"
    /\ ~pending
    /\ budget > 0
    /\ size_text' = text
    /\ typed' = text
    /\ UNCHANGED typed_id
    /\ UNCHANGED pos_text
    /\ LET wh   == parse_num_pair(text)
           size == wh.v
           sn   == get_nodes_by_idx(nodes, selected_idx)
       IN  IF ~wh.ok THEN Rejected("OnSizeText", "size")
           ELSE IF Len(sn) = 1
           THEN LET node    == sn[1]
                    clamped == clamp_rect_size(Rect(node.position, size), realsize)
                    e       == SingleSizeEdit(node, clamped)
                IN  IF BelowMin(size)
                    THEN Rejected("OnSizeText", "size")
                    ELSE IF node.size # clamped \/ size # clamped
                    THEN Handler("OnSizeText", nodes, e.sc, e.calls,
                                 SetValidationState(TRUE, "size"), "")
                    ELSE Handler("OnSizeText", nodes, self_changes, <<>>,
                                 SetValidationState(TRUE, "size"), "")
           ELSE IF Len(sn) = 0
           THEN Raises("OnSizeText", "ValueError")
           ELSE LET min_nw == SeqMin([i \in DOMAIN sn |-> sn[i].size.x])
                    min_nh == SeqMin([i \in DOMAIN sn |-> sn[i].size.y])
                IN  IF RIsZero(min_nw) \/ RIsZero(min_nh)
                    THEN Raises("OnSizeText", "ZeroDivisionError")
                    ELSE IF bounding_rect.isNone
                    THEN Raises("OnSizeText", "AttributeError")
                    ELSE
                    LET br        == bounding_rect.rect
                        limit     == SizeLimit(sn, br)
                        clamped   == clamp_rect_size(Rect(br.position, size), realsize)
                        e         == MultiSizeEdit(sn, br, clamped)
                    IN  IF BelowLimit(size, limit)
                        THEN Rejected("OnSizeText", "size")
                        ELSE IF br.size # clamped \/ size # clamped
                        THEN IF RIsZero(br.size.x) \/ RIsZero(br.size.y)
                             THEN Raises("OnSizeText", "ZeroDivisionError")
                             ELSE Handler("OnSizeText", nodes, e.sc, e.calls,
                                          SetValidationState(TRUE, "size"), "")
                        ELSE Handler("OnSizeText", nodes, self_changes, <<>>,
                                     SetValidationState(TRUE, "size"), "")

(***************************************************************************)
(* The float controls (_MakeFloatCtrlFunction).                            *)
(***************************************************************************)
\* an end of a range: None, or a number
NoBound == [none |-> TRUE, v |-> R(0)]
Bound(r) == [none |-> FALSE, v |-> r]

\* float(text) succeeds: the text is one field that reads as a float
IsFloat(text) == Len(text) = 1 /\ text[1].num

\* the range test as it would be if it did not look at the lower end
InRangeNoLow(value, lo, hi, left_incl, right_incl) ==
    IF right_incl THEN ~(~hi.none /\ RLt(hi.v, value))
                  ELSE ~(~hi.none /\ RLe(hi.v, value))

\* the range test of float_ctrl_fn (lines 302-315)
InRange(value, lo, hi, left_incl, right_incl) ==
    /\ IF left_incl THEN ~(~lo.none /\ RLt(value, lo.v))
                    ELSE ~(~lo.none /\ RLe(value, lo.v))
    /\ IF right_incl THEN ~(~hi.none /\ RLt(hi.v, value))
                     ELSE ~(~hi.none /\ RLe(hi.v, value))

\* int(x) of a float x that is not negative
IntOf(x) == x[1] \div x[2]

\* the calls of a handler that brackets the calls body in a group
Grouped(body) == <<start_group(TRUE)>> \o body \o <<end_group(TRUE)>>

\* the value float_ctrl_fn passes to the callback
FloatOf(text) == text[1].val

\* float_ctrl_fn for the control ctrl with the given range: the callback is
\* called with the value if the text is a float within the range, and e is
\* what callback(FloatOf(text)) does
FloatCtrl(op, ctrl, text, lo, hi, left_incl, e) ==
    /\ ~pending
    /\ budget > 0
    /\ typed' = text
    /\ UNCHANGED typed_id
    /\ UNCHANGED <<pos_text, size_text>>
    /\ IF ~IsFloat(text) THEN Rejected(op, ctrl)
       ELSE IF ~InRange(FloatOf(text), lo, hi, left_incl, TRUE)
       THEN Rejected(op, ctrl)
       ELSE Handler(op, nodes, e.sc, e.calls, SetValidationState(TRUE, ctrl), "")

\* a handler of a control that is not a number: what it leaves of the texts
NoText == UNCHANGED <<pos_text, size_text, typed, typed_id>>

\* a handler of an identifier control: the identifier typed
IdText(new_id) == typed_id' = new_id /\ UNCHANGED <<pos_text, size_text, typed>>

(***************************************************************************)
(* NodeForm: identifier, colours, opacities, border width.                 *)
(***************************************************************************)
\* NodeForm._OnIdText: the user typed new_id into id_ctrl.  ok is the answer
\* of rename_node, should the handler get that far: the Controller refuses
\* an identifier it already holds and may refuse one for reasons of its own.
OnIdText(new_id, ok) ==
    /\ form = "node"
    /\ ~pending
    /\ budget > 0
    /\ ok => rename_ok(model, new_id)
    /\ IdText(new_id)
    /\ IF Cardinality(selected_idx) # 1 THEN Raises("OnIdText", "AssertionError")
       ELSE IF new_id = "" THEN Rejected("OnIdText", "id")
       ELSE IF \E i \in DOMAIN nodes : nodes[i].id_ = new_id
       THEN Rejected("OnIdText", "id")
       ELSE LET nodei == CHOOSE n \in selected_idx : TRUE
                cs == <<SetStr("rename_node", nodei, new_id, TRUE)>>
            IN  IF ok
                THEN Handler("OnIdText", nodes, TRUE, cs,
                             SetValidationState(TRUE, "id"), "")
                ELSE Handler("OnIdText", nodes, TRUE, <<Refused(cs[1])>>, badges,
                             "AssertionError")

\* the calls of the loop of _OnFillColorChanged / _OnBorderColorChanged on
\* Windows (RGB only) and elsewhere (RGB, then alpha)
ColourCalls(es, rgb_fn, alpha_fn, colour) ==
    LET per(e) ==
            IF msw THEN <<SetNum(rgb_fn, e.index, R(colour.rgb), TRUE)>>
            ELSE <<SetNum(rgb_fn, e.index, R(colour.rgb), TRUE),
                   SetNum(alpha_fn, e.index, R(colour.alpha), TRUE)>>
        F[i \in 0..Len(es)] == IF i = 0 THEN <<>> ELSE F[i - 1] \o per(es[i])
    IN  F[Len(es)]

\* NodeForm._OnFillColorChanged: the user picked the colour fill
OnFillColorChanged(fill) ==
    /\ form = "node"
    /\ ~pending
    /\ budget > 0
    /\ NoText
    /\ LET sn == get_nodes_by_idx(nodes, selected_idx)
       IN  Handler("OnFillColorChanged", nodes, TRUE,
                   Grouped(ColourCalls(sn, "set_node_fill_rgb",
                                       "set_node_fill_alpha", fill)),
                   badges, "")

\* NodeForm._OnBorderColorChanged: the user picked the colour border.  Off
\* Windows the first pass of the loop reads self.net_idnex, which the form
\* does not have: the handler ends there, inside the group.
OnBorderColorChanged(border) ==
    /\ form = "node"
    /\ ~pending
    /\ budget > 0
    /\ NoText
    /\ LET sn == get_nodes_by_idx(nodes, selected_idx)
       IN  IF ~msw /\ sn # <<>>
           THEN Handler("OnBorderColorChanged", nodes, TRUE, <<start_group(TRUE)>>,
                        badges, "AttributeError")
           ELSE Handler("OnBorderColorChanged", nodes, TRUE,
                        Grouped(ColourCalls(sn, "set_node_border_rgb",
                                            "set_node_border_alpha", border)),
                        badges, "")

\* the calls of a callback that sets one number on every selected entity
NumCalls(es, fn, val) == [i \in DOMAIN es |-> SetNum(fn, es[i].index, val, TRUE)]

\* NodeForm._FillAlphaCallback(alpha)
FillAlphaCallback(alpha) ==
    [sc |-> TRUE,
     calls |-> Grouped(NumCalls(get_nodes_by_idx(nodes, selected_idx),
                                "set_node_fill_alpha", R(IntOf(RMul(alpha, R(255))))))]

\* NodeForm._BorderAlphaCallback(alpha)
BorderAlphaCallback(alpha) ==
    [sc |-> TRUE,
     calls |-> Grouped(NumCalls(get_nodes_by_idx(nodes, selected_idx),
                                "set_node_border_alpha", R(IntOf(RMul(alpha, R(255))))))]

\* NodeForm._BorderWidthCallback(width)
BorderWidthCallback(width) ==
    [sc |-> TRUE,
     calls |-> Grouped(NumCalls(get_nodes_by_idx(nodes, selected_idx),
                                "set_node_border_width", width))]

\* the opacity controls exist on Windows only (_CreateColorControl)
OnFillAlphaText(text) ==
    /\ form = "node"
    /\ msw
    /\ FloatCtrl("FillAlphaCallback", "fill_alpha", text, Bound(R(0)), Bound(R(1)),
                 TRUE, FillAlphaCallback(FloatOf(text)))

OnBorderAlphaText(text) ==
    /\ form = "node"
    /\ msw
    /\ FloatCtrl("BorderAlphaCallback", "border_alpha", text, Bound(R(0)),
                 Bound(R(1)), TRUE, BorderAlphaCallback(FloatOf(text)))

\* the border width control (CreateControls, lines 520-524)
OnBorderWidthText(text) ==
    /\ form = "node"
    /\ FloatCtrl("BorderWidthCallback", "border_width", text, Bound(R(1)),
                 Bound(R(100)), TRUE, BorderWidthCallback(FloatOf(text)))

(***************************************************************************)
(* ReactionForm.                                                           *)
(***************************************************************************)
\* ReactionForm.UpdateSelection(sel)
ReactionUpdateSelection(sel) ==
    /\ form = "reaction"
    /\ ~pending
    /\ selected_idx' = sel
    /\ repopulated' = (sel # {})
    /\ stoich_reai' = IF sel # {} THEN StoichFields(sel) ELSE stoich_reai
    /\ UNCHANGED <<designer, plugin>>
    /\ fields' = IF sel # {} THEN ReactionFields(reactions, sel, fields) ELSE fields
    /\ badges' = IF sel # {} THEN StoichBadgesDropped(badges) ELSE badges
    /\ self_changes' = IF sel # {} THEN FALSE ELSE self_changes
    /\ last' = "UpdateSelection"
    /\ NoHandler
    /\ UNCHANGED <<form, msw, nodes, bounding_rect, pos_text, size_text, reactions,
                   compartments, model, rmodel, cmodel, group_depth, pending, budget>>

\* a change the form did not initiate sets the rate law of reaction i, or
\* changes nothing (edited = FALSE), and the form is notified
ReactionExternalRefresh(i, law, edited) ==
    /\ form = "reaction"
    /\ ~pending
    /\ edited => budget > 0
    /\ rmodel' = IF edited THEN [k \in DOMAIN rmodel |->
                     IF rmodel[k].index = i THEN [rmodel[k] EXCEPT !.rate_law = law]
                     ELSE rmodel[k]]
                 ELSE rmodel
    /\ ReactionUpdate(rmodel')
    /\ last' = "Update"
    /\ budget' = IF edited THEN budget - 1 ELSE budget
    /\ NoHandler
    /\ UNCHANGED <<form, msw, nodes, selected_idx, bounding_rect, pos_text,
                   size_text, compartments, model, cmodel, group_depth, pending>>

\* ReactionForm._OnIdText: the user typed new_id into id_ctrl.  ok is the
\* answer of rename_reaction, which the handler does not look at.
ReactionOnIdText(new_id, ok) ==
    /\ form = "reaction"
    /\ ~pending
    /\ budget > 0
    /\ ok => rename_ok(rmodel, new_id)
    /\ IdText(new_id)
    /\ IF Cardinality(selected_idx) # 1
       THEN Raises("ReactionOnIdText", "AssertionError")
       ELSE IF new_id = "" THEN Rejected("ReactionOnIdText", "id")
       ELSE IF \E i \in DOMAIN reactions : reactions[i].id_ = new_id
       THEN Rejected("ReactionOnIdText", "id")
       ELSE LET reai == CHOOSE r \in selected_idx : TRUE
                c == SetStr("rename_reaction", reai, new_id, TRUE)
            IN  Handler("ReactionOnIdText", nodes, TRUE,
                        <<IF ok THEN c ELSE Refused(c)>>,
                        SetValidationState(TRUE, "id"), "")

\* ReactionForm._StrokeWidthCallback(width)
StrokeWidthCallback(width) ==
    [sc |-> TRUE,
     calls |-> Grouped(NumCalls(SelectedOf(reactions, selected_idx),
                                "set_reaction_line_thickness", width))]

\* the line width control (CreateControls, lines 781-785)
OnStrokeWidthText(text) ==
    /\ form = "reaction"
    /\ FloatCtrl("StrokeWidthCallback", "stroke_width", text, Bound(Frac(1, 10)),
                 Bound(R(100)), TRUE, StrokeWidthCallback(FloatOf(text)))

\* ReactionForm._OnFillColorChanged: the user picked the colour fill
ReactionOnFillColorChanged(fill) ==
    /\ form = "reaction"
    /\ ~pending
    /\ budget > 0
    /\ NoText
    /\ Handler("ReactionOnFillColorChanged", nodes, TRUE,
               Grouped(ColourCalls(SelectedOf(reactions, selected_idx),
                                   "set_reaction_fill_rgb",
                                   "set_reaction_fill_alpha", fill)),
               badges, "")

\* ReactionForm._FillAlphaCallback(alpha)
ReactionFillAlphaCallback(alpha) ==
    [sc |-> TRUE,
     calls |-> Grouped(NumCalls(SelectedOf(reactions, selected_idx),
                                "set_reaction_fill_alpha",
                                R(IntOf(RMul(alpha, R(255))))))]

ReactionOnFillAlphaText(text) ==
    /\ form = "reaction"
    /\ msw
    /\ FloatCtrl("ReactionFillAlphaCallback", "fill_alpha", text, Bound(R(0)),
                 Bound(R(1)), TRUE, ReactionFillAlphaCallback(FloatOf(text)))

\* ReactionForm._OnRateLawText: the user typed ratelaw into ratelaw_ctrl
OnRateLawText(ratelaw) ==
    /\ form = "reaction"
    /\ ~pending
    /\ budget > 0
    /\ NoText
    /\ IF Cardinality(selected_idx) # 1
       THEN Raises("OnRateLawText", "AssertionError")
       ELSE LET reai == CHOOSE r \in selected_idx : TRUE
            IN  Handler("OnRateLawText", nodes, TRUE,
                        <<SetStr("set_reaction_ratelaw", reai, ratelaw, TRUE)>>,
                        badges, "")

\* the node of the stoichiometry control of the reaction reai on the
\* reactant (src) or product side
EndNode(reai, side) ==
    LET r == CHOOSE k \in DOMAIN rmodel : rmodel[k].index = reai
    IN  IF side = "src" THEN rmodel[r].src ELSE rmodel[r].dest

\* that function as it would be if it set _self_changes after the call
SetSrcStoichFlagLate(reai, nodei, val) ==
    [sc |-> TRUE,
     calls |-> <<SetStoich("set_src_node_stoich", reai, nodei, val, self_changes)>>]

\* the function _MakeSetSrcStoichFunction(reai, nodei) returns
SetSrcStoich(reai, nodei, val) ==
    [sc |-> TRUE, calls |-> <<SetStoich("set_src_node_stoich", reai, nodei, val, TRUE)>>]

\* the function _MakeSetDestStoichFunction(reai, nodei) returns
SetDestStoich(reai, nodei, val) ==
    [sc |-> TRUE, calls |-> <<SetStoich("set_dest_node_stoich", reai, nodei, val, TRUE)>>]

\* the user typed text into the stoichiometry control of the reactant
\* (_UpdateStoichFields, lines 902-909)
OnSrcStoichText(text) ==
    /\ form = "reaction"
    /\ stoich_reai # -1
    /\ FloatCtrl("SetSrcStoich", "src_stoich", text, Bound(R(0)), NoBound, FALSE,
                 SetSrcStoich(stoich_reai, EndNode(stoich_reai, "src"), FloatOf(text)))

\* the user typed text into the stoichiometry control of the product
\* (_UpdateStoichFields, lines 912-919)
OnDestStoichText(text) ==
    /\ form = "reaction"
    /\ stoich_reai # -1
    /\ FloatCtrl("SetDestStoich", "dest_stoich", text, Bound(R(0)), NoBound, FALSE,
                 SetDestStoich(stoich_reai, EndNode(stoich_reai, "dest"),
                               FloatOf(text)))

(***************************************************************************)
(* CompartmentForm.                                                        *)
(***************************************************************************)
\* CompartmentForm.UpdateSelection(sel)
CompartmentUpdateSelection(sel) ==
    /\ form = "compartment"
    /\ ~pending
    /\ selected_idx' = sel
    /\ repopulated' = (sel # {})
    /\ UNCHANGED <<designer, plugin>>
    /\ fields' = IF sel # {} THEN CompartmentFields(compartments, sel, fields)
                 ELSE fields
    /\ self_changes' = IF sel # {} THEN FALSE ELSE self_changes
    /\ last' = "UpdateSelection"
    /\ NoHandler
    /\ UNCHANGED <<form, msw, nodes, bounding_rect, badges, pos_text, size_text,
                   reactions, compartments, stoich_reai, model, rmodel, cmodel,
                   group_depth, pending, budget>>

\* a change the form did not initiate renames compartment i, or changes
\* nothing (edited = FALSE), and the form is notified (UpdateCompartments)
CompartmentExternalRefresh(i, id, edited) ==
    /\ form = "compartment"
    /\ ~pending
    /\ edited => budget > 0
    /\ cmodel' = IF edited THEN [k \in DOMAIN cmodel |->
                     IF cmodel[k].index = i THEN [cmodel[k] EXCEPT !.id_ = id]
                     ELSE cmodel[k]]
                 ELSE cmodel
    /\ CompartmentUpdate(cmodel')
    /\ last' = "Update"
    /\ budget' = IF edited THEN budget - 1 ELSE budget
    /\ NoHandler
    /\ UNCHANGED <<form, msw, nodes, selected_idx, bounding_rect, pos_text,
                   size_text, reactions, stoich_reai, model, rmodel, group_depth,
                   pending>>

\* CompartmentForm._OnIdText: the user typed new_id into id_ctrl.  The
\* duplicate test reads self._reactions, which a CompartmentForm does not
\* have: an identifier that is not empty ends the handler there.
CompartmentOnIdText(new_id) ==
    /\ form = "compartment"
    /\ ~pending
    /\ budget > 0
    /\ IdText(new_id)
    /\ IF Cardinality(selected_idx) # 1
       THEN Raises("CompartmentOnIdText", "AssertionError")
       ELSE IF new_id = "" THEN Rejected("CompartmentOnIdText", "id")
       ELSE Raises("CompartmentOnIdText", "AttributeError")

(***************************************************************************)
(* The arrow designer (plugins/arrow_designer.py): DesignerWindow.          *)
(* Pointer positions are integer pixels, arrow tip points are grid cells.  *)
(***************************************************************************)
NoPoint == [isNone |-> TRUE, p |-> Vec2(0, 0)]
SomePoint(p) == [isNone |-> FALSE, p |-> p]

\* projected_landing as it would be if half a cell stayed on the lower line
projected_landing_strict(point) ==
    LET lx == point.x - (point.x % csize)
        ly == point.y - (point.y % csize)
    IN  Vec2(IF 2 * (point.x - lx) <= csize THEN lx ELSE lx + csize,
             IF 2 * (point.y - ly) <= csize THEN ly ELSE ly + csize)

\* projected_landing as it would be if it always went to the upper line
projected_landing_up(point) ==
    LET lx == point.x - (point.x % csize)
        ly == point.y - (point.y % csize)
    IN  Vec2(lx + csize, ly + csize)

\* projected_landing(point): where a point released at the pixel point lands
projected_landing(point) ==
    LET lx == point.x - (point.x % csize)
        ly == point.y - (point.y % csize)
    IN  Vec2(IF 2 * (point.x - lx) < csize THEN lx ELSE lx + csize,
             IF 2 * (point.y - ly) < csize THEN ly ELSE ly + csize)

\* (pos - pt).norm_sq
norm_sq(a, b) == (a.x - b.x) * (a.x - b.x) + (a.y - b.y) * (a.y - b.y)

\* update_hover_idx as it would be if the edge of the circle did not count
update_hover_idx_strict(pts, pos) ==
    LET near == {i \in DOMAIN pts :
                    norm_sq(pos, Vec2(pts[i].x * csize, pts[i].y * csize))
                        < radius * radius}
    IN  IF near = {} THEN -1
        ELSE (CHOOSE i \in near : \A j \in near : i <= j) - 1

\* update_hover_idx(pos): the first point of pts within radius of pos, or -1
\* (positions in the list count from 0)
update_hover_idx(pts, pos) ==
    LET near == {i \in DOMAIN pts :
                    norm_sq(pos, Vec2(pts[i].x * csize, pts[i].y * csize))
                        <= radius * radius}
    IN  IF near = {} THEN -1
        ELSE (CHOOSE i \in near : \A j \in near : i <= j) - 1

\* a pointer event of the designer: what it leaves of the rest of the state
Pointer(op, exc) ==
    /\ last' = op
    /\ raised' = exc
    /\ UNCHANGED panel
    /\ UNCHANGED plugin

\* DesignerWindow.OnLeftDown
OnLeftDown ==
    /\ form = "designer"
    /\ dragging' = IF hover_idx # -1 THEN TRUE ELSE dragging
    /\ Pointer("OnLeftDown", "")
    /\ UNCHANGED <<points, hover_idx, dragged_point, landing, pointer, budget>>

\* the assignment of line 79 as it would be if it wrote the point after the
\* hovered one
SetPointNext(pts, idx, cell) == [pts EXCEPT ![((idx + 1) % Len(pts)) + 1] = cell]

\* self.arrow_tip.points[idx] = cell (line 79; Python indexes from 0)
SetPoint(pts, idx, cell) == [pts EXCEPT ![idx + 1] = cell]

\* DesignerWindow.OnLeftUp with the pointer at pos
OnLeftUp(pos) ==
    /\ form = "designer"
    /\ budget > 0
    /\ budget' = budget - 1
    /\ pointer' = pos
    /\ IF ~dragging
       THEN /\ Pointer("OnLeftUp", "")
            /\ UNCHANGED <<points, hover_idx, dragged_point, dragging, landing>>
       ELSE IF dragged_point.isNone \/ hover_idx = -1
       THEN /\ Pointer("OnLeftUp", "AssertionError")
            /\ landing' = IF dragged_point.isNone THEN landing
                          ELSE SomePoint(projected_landing(dragged_point.p))
            /\ UNCHANGED <<points, hover_idx, dragged_point, dragging>>
       ELSE LET drop == projected_landing(dragged_point.p)
                pts  == SetPoint(points, hover_idx,
                                 Vec2(drop.x \div csize, drop.y \div csize))
            IN  /\ landing' = SomePoint(drop)
                /\ dragging' = FALSE
                /\ points' = pts
                /\ hover_idx' = update_hover_idx(pts, pos)
                /\ Pointer("OnLeftUp", "")
                /\ UNCHANGED dragged_point

\* OnMotion as it would be if the dragged point followed the grid
OnMotionSnapped(pos) ==
    /\ form = "designer"
    /\ IF dragging
       THEN /\ dragged_point' = SomePoint(projected_landing(pos))
            /\ UNCHANGED hover_idx
       ELSE /\ hover_idx' = update_hover_idx(points, pos)
            /\ UNCHANGED dragged_point
    /\ pointer' = pos
    /\ Pointer("OnMotion", "")
    /\ UNCHANGED <<points, dragging, landing, budget>>

\* DesignerWindow.OnMotion with the pointer at pos
OnMotion(pos) ==
    /\ form = "designer"
    /\ IF dragging
       THEN /\ dragged_point' = SomePoint(pos)
            /\ UNCHANGED hover_idx
       ELSE /\ hover_idx' = update_hover_idx(points, pos)
            /\ UNCHANGED dragged_point
    /\ pointer' = pos
    /\ Pointer("OnMotion", "")
    /\ UNCHANGED <<points, dragging, landing, budget>>

\* DesignerWindow.OnPaint: draw_points with its assertions; the projection of
\* the dragged point (the phantom point) is drawn, nothing is stored
OnPaint ==
    /\ form = "designer"
    /\ IF dragging /\ (hover_idx = -1 \/ dragged_point.isNone)
       THEN /\ Pointer("OnPaint", "AssertionError")
            /\ UNCHANGED landing
       ELSE /\ Pointer("OnPaint", "")
            /\ landing' = IF hover_idx # -1 /\ dragging
                          THEN SomePoint(projected_landing(dragged_point.p))
                          ELSE landing
    /\ UNCHANGED <<points, hover_idx, dragged_point, dragging, pointer, budget>>

\* the arrow tip api.get_default_arrow_tip() returns
DefaultTip == <<Vec2(2, 1), Vec2(2, 7), Vec2(8, 7), Vec2(12, 4)>>

\* DesignerWindow.update_arrow_tip, called by ArrowDesigner.OnRestore
update_arrow_tip ==
    /\ form = "designer"
    /\ points' = DefaultTip
    /\ last' = "update_arrow_tip"
    /\ raised' = ""
    /\ UNCHANGED panel
    /\ UNCHANGED <<hover_idx, dragged_point, dragging, landing, pointer>>

(***************************************************************************)
(* The plugin (plugins/arrow_designer.py): ArrowDesigner.                  *)
(***************************************************************************)
\* the points of ArrowDesigner.arrow_tip: the window edits that object in
\* place for as long as it holds it
PluginTip == IF shared THEN points ELSE kept

\* ArrowDesigner.__init__ and create_window: the window is given the
\* plugin's tip, which is what api.get_arrow_tip returned
InitPlugin ==
    /\ shared = TRUE
    /\ kept = DefaultTip
    /\ saved = DefaultTip

\* ArrowDesigner.OnSave
OnSave ==
    /\ form = "designer"
    /\ saved' = PluginTip
    /\ last' = "OnSave"
    /\ raised' = ""
    /\ UNCHANGED <<shared, kept, budget>>
    /\ UNCHANGED panel
    /\ UNCHANGED designer

\* ArrowDesigner.OnRestore: the window is handed the default tip, the
\* plugin keeps the tip it had
OnRestore ==
    /\ budget > 0
    /\ budget' = budget - 1
    /\ saved' = DefaultTip
    /\ kept' = PluginTip
    /\ shared' = FALSE
    /\ update_arrow_tip

(***************************************************************************)
(* Specifications.                                                         *)
(***************************************************************************)
\* the node list the canvas starts with: node 0 is degenerate (zero width)
InitNodes ==
    <<MkNode(0, "b", 0, 0, 0, 2, Colour(1, 255), Colour(0, 255), 1),
      MkNode(1, "a", 2, 4, 4, 4, Colour(1, 255), Colour(0, 255), 1),
      MkNode(2, "c", 6, 2, 4, 6, Colour(1, 0), Colour(1, 255), 2)>>

Selections == {{}, {1}, {1, 2}, {0, 1}}
PosTexts == {PairText(4, 2), PairText(20, 20), PairText(-1, 0)}
SizeTexts == {PairText(4, 3), PairText(20, 20), PairText(4, 1)}
\* where a node may be put by an operation the form did not initiate
ExternalPositions == {Vec2(R(1), R(3))}

MkReaction(i, id, fill, th, law, src, ss, dest, ds) ==
    [index |-> i, id_ |-> id, fill_color |-> fill, thickness |-> R(th),
     rate_law |-> law, src |-> src, src_stoich |-> R(ss), dest |-> dest,
     dest_stoich |-> R(ds)]

\* the reactions the canvas starts with
InitReactions ==
    <<MkReaction(0, "r", Colour(1, 255), 1, "k", 0, 1, 1, 2),
      MkReaction(1, "z", Colour(0, 255), 2, "", 1, 1, 2, 1)>>

\* the compartments the canvas starts with
InitCompartments == <<[index |-> 0, id_ |-> "c"], [index |-> 1, id_ |-> "a"]>>

\* DesignerWindow.__init__ with the arrow tip of the application
InitDesigner ==
    /\ points = DefaultTip
    /\ hover_idx = -1
    /\ dragged_point = NoPoint
    /\ dragging = FALSE
    /\ landing = NoPoint
    /\ pointer = Vec2(0, 0)
    /\ InitPlugin

InitForm ==
    /\ model = InitNodes
    /\ nodes = model
    /\ rmodel = InitReactions
    /\ reactions = rmodel
    /\ cmodel = InitCompartments
    /\ compartments = cmodel
    /\ stoich_reai = -1
    /\ selected_idx = {}
    /\ bounding_rect = NoneRect
    /\ self_changes = FALSE
    /\ badges = [c \in Ctrls |-> FALSE]
    /\ pos_text = EmptyText
    /\ size_text = EmptyText
    /\ group_depth = 0
    /\ pending = FALSE
    /\ calls = <<>>
    /\ changed = FALSE
    /\ fields = NoFields
    /\ typed = EmptyText
    /\ typed_id = ""
    /\ raised = ""
    /\ last = "init"
    /\ repopulated = FALSE

\* the node form and its position and size controls
InitGeom ==
    /\ form = "node"
    /\ msw = FALSE
    /\ budget = MaxGeomEdits
    /\ InitForm
    /\ InitDesigner

NextGeom ==
    \/ \E sel \in Selections : UpdateSelection(sel)
    \/ EchoRefresh
    \/ \E p \in ExternalPositions, moved \in BOOLEAN : ExternalRefresh(1, p, moved)
    \/ \E t \in PosTexts : OnPosText(t)
    \/ \E t \in SizeTexts : OnSizeText(t)

SpecGeom == InitGeom /\ [][NextGeom]_vars

\* what the user may type or pick in the other controls
Ids == {"", "a", "z"}
FloatTexts ==
    {<<Junk>>, <<Num(0)>>, <<NumR(Frac(1, 2))>>, <<NumR(Frac(1001, 1000))>>, <<Num(2)>>}
ColourPicks == {Colour(1, 255), Colour(0, 128)}
RateLaws == {"k", "v"}
\* the identifier an operation the form did not initiate may give a compartment
ExternalIds == {"z"}
EntitySelections == {{}, {0}, {0, 1}}

\* any of the three forms, on Windows or not, and all of its handlers
Init ==
    /\ form \in {"node", "reaction", "compartment"}
    /\ msw \in BOOLEAN
    /\ budget = MaxEdits
    /\ InitForm
    /\ InitDesigner

Next ==
    \/ \E sel \in Selections : UpdateSelection(sel)
    \/ EchoRefresh
    \/ \E p \in ExternalPositions, moved \in BOOLEAN : ExternalRefresh(1, p, moved)
    \/ \E t \in PosTexts : OnPosText(t)
    \/ \E t \in SizeTexts : OnSizeText(t)
    \/ \E id \in Ids, ok \in BOOLEAN : OnIdText(id, ok)
    \/ \E c \in ColourPicks : OnFillColorChanged(c)
    \/ \E c \in ColourPicks : OnBorderColorChanged(c)
    \/ \E t \in FloatTexts : OnFillAlphaText(t)
    \/ \E t \in FloatTexts : OnBorderAlphaText(t)
    \/ \E t \in FloatTexts : OnBorderWidthText(t)
    \/ \E sel \in EntitySelections : ReactionUpdateSelection(sel)
    \/ \E law \in RateLaws, edited \in BOOLEAN : ReactionExternalRefresh(1, law, edited)
    \/ \E id \in Ids, ok \in BOOLEAN : ReactionOnIdText(id, ok)
    \/ \E t \in FloatTexts : OnStrokeWidthText(t)
    \/ \E c \in ColourPicks : ReactionOnFillColorChanged(c)
    \/ \E t \in FloatTexts : ReactionOnFillAlphaText(t)
    \/ \E law \in RateLaws : OnRateLawText(law)
    \/ \E t \in FloatTexts : OnSrcStoichText(t)
    \/ \E t \in FloatTexts : OnDestStoichText(t)
    \/ \E sel \in EntitySelections : CompartmentUpdateSelection(sel)
    \/ \E id \in ExternalIds, edited \in BOOLEAN :
          CompartmentExternalRefresh(1, id, edited)
    \/ \E id \in Ids : CompartmentOnIdText(id)

Spec == Init /\ [][Next]_vars

\* where the pointer may be: on the points of the arrow tip, at the pixels
\* (51,39) and (50,30) (half a cell past a grid line on both axes), at
\* (52,20) (exactly radius away from the first point), and away from every
\* point
PointerPositions ==
    {Vec2(40, 20), Vec2(51, 39), Vec2(50, 30), Vec2(52, 20), Vec2(160, 140),
     Vec2(300, 300)}

\* the arrow designer's window
InitSnap ==
    /\ form = "designer"
    /\ msw = FALSE
    /\ budget = MaxDrops
    /\ InitForm
    /\ InitDesigner

NextSnap ==
    \/ OnLeftDown
    \/ \E pos \in PointerPositions : OnLeftUp(pos)
    \/ \E pos \in PointerPositions : OnMotion(pos)
    \/ OnPaint
    \/ OnRestore

SpecSnap == InitSnap /\ [][NextSnap]_vars

\* the plugin's dialog: the designer's window with the Save and Restore
\* default buttons
MaxPluginEdits == 2

PluginPositions == {Vec2(40, 20), Vec2(51, 39), Vec2(160, 140)}

InitPlugged ==
    /\ form = "designer"
    /\ msw = FALSE
    /\ budget = MaxPluginEdits
    /\ InitForm
    /\ InitDesigner

NextPlugged ==
    \/ OnLeftDown
    \/ \E pos \in PluginPositions : OnLeftUp(pos)
    \/ \E pos \in PluginPositions : OnMotion(pos)
    \/ OnSave
    \/ OnRestore

SpecPlugged == InitPlugged /\ [][NextPlugged]_vars

\* projected_landing on its own: any pixel, negative coordinates included, is
\* projected, and the projection is then projected again
Coords == (0 - MaxCoord)..MaxCoord

InitLanding ==
    /\ form = "designer"
    /\ msw = FALSE
    /\ budget = 1
    /\ InitForm
    /\ points = DefaultTip
    /\ pointer = Vec2(0, 0)
    /\ hover_idx = 0
    /\ dragging = TRUE
    /\ dragged_point \in {SomePoint(Vec2(x, y)) : x \in Coords, y \in Coords}
    /\ landing = NoPoint
    /\ InitPlugin

\* drop_point = self.projected_landing(self.dragged_point)
ProjectLanding ==
    /\ landing.isNone
    /\ landing' = SomePoint(projected_landing(dragged_point.p))
    /\ Pointer("projected_landing", "")
    /\ UNCHANGED <<points, hover_idx, dragged_point, dragging, pointer, budget>>

\* the projection becomes the pixel to project
ProjectAgain ==
    /\ ~landing.isNone
    /\ budget > 0
    /\ budget' = budget - 1
    /\ dragged_point' = landing
    /\ landing' = NoPoint
    /\ Pointer("again", "")
    /\ UNCHANGED <<points, hover_idx, dragging, pointer>>

NextLanding == ProjectLanding \/ ProjectAgain

SpecLanding == InitLanding /\ [][NextLanding]_vars

(***************************************************************************)
(* Properties.                                                             *)
(***************************************************************************)
\* the selected nodes as the form sees them
SelNodes == get_nodes_by_idx(nodes, selected_idx)
\* the positions in the log of the calls fn for entity idx
CallsOf(fn, idx) == {i \in DOMAIN calls : calls[i].fn = fn /\ calls[i].idx = idx}
TypedVec == parse_num_pair(typed).v

\* C1: an accepted size edit on several nodes scales every selected node
\* about the origin of the bounding rectangle the form holds: with ratio =
\* clamped size / bounding size, node n gets position origin + (n.position -
\* origin) * ratio and size n.size * ratio, by exactly one move_node and one
\* set_node_size call per selected node, all inside one group.
C1_ProportionalResize ==
    (last = "OnSizeText" /\ Len(SelNodes) >= 2 /\ calls # <<>>) =>
        LET br      == bounding_rect.rect
            clamped == clamp_rect_size(Rect(br.position, TypedVec), realsize)
            ratio   == Vec2(RDiv(clamped.x, br.size.x), RDiv(clamped.y, br.size.y))
        IN  /\ Len(calls) = 2 + 2 * Len(SelNodes)
            /\ calls[1].fn = "start_group"
            /\ calls[Len(calls)].fn = "end_group"
            /\ \A i \in 2..(Len(calls) - 1) : calls[i].fn \notin GroupCalls
            /\ \A k \in DOMAIN SelNodes :
                  LET n == SelNodes[k]
                      rel == Vec2(RSub(n.position.x, br.position.x),
                                  RSub(n.position.y, br.position.y))
                      new_pos == Vec2(RAdd(br.position.x, RMul(rel.x, ratio.x)),
                                      RAdd(br.position.y, RMul(rel.y, ratio.y)))
                      new_size == Vec2(RMul(n.size.x, ratio.x), RMul(n.size.y, ratio.y))
                  IN  /\ Cardinality(CallsOf("move_node", n.index)) = 1
                      /\ Cardinality(CallsOf("set_node_size", n.index)) = 1
                      /\ \A i \in CallsOf("move_node", n.index) : calls[i].vec = new_pos
                      /\ \A i \in CallsOf("set_node_size", n.index) :
                            calls[i].vec = new_size

\* C1 witness: nodes 1 and 2 (bounding origin (2,2), size (8,6)) resized to
\* the typed "20,20", clamped to (10,10): ratio (5/4, 5/3), six calls
C1_Witness ==
    /\ last = "OnSizeText"
    /\ selected_idx = {1, 2}
    /\ typed = PairText(20, 20)
    /\ Len(calls) = 6
    /\ bounding_rect.rect = Rect(Vec2(R(2), R(2)), Vec2(R(8), R(6)))
    /\ \E i \in DOMAIN calls :
          calls[i].fn = "set_node_size" /\ calls[i].vec = Vec2(R(5), <<20, 3>>)

\* C2: whenever several nodes are selected and no notification is
\* outstanding, the bounding rectangle the next position or size edit will
\* use is the smallest rectangle containing the selected nodes' rectangles.
C2_BoundingRectCurrent ==
    (form = "node" /\ Cardinality(selected_idx) >= 2 /\ ~pending) =>
        /\ ~bounding_rect.isNone
        /\ bounding_rect.rect = get_bounding_rect(Rects(SelNodes))

\* C3: after a position edit on several nodes that goes ahead, the bounding
\* rectangle of the selected nodes has its top-left at the typed position
\* clamped to the canvas, every selected node got one move_node call with
\* its new position, and no size was changed.
C3_RigidTranslation ==
    (last = "OnPosText" /\ Len(SelNodes) >= 2 /\ calls # <<>>) =>
        LET after   == get_bounding_rect(Rects(SelNodes))
            clamped == clamp_rect_pos(Rect(TypedVec, after.size), bounds)
        IN  /\ after.position = clamped
            /\ \A k \in DOMAIN SelNodes :
                  /\ Cardinality(CallsOf("move_node", SelNodes[k].index)) = 1
                  /\ \A i \in CallsOf("move_node", SelNodes[k].index) :
                        calls[i].vec = SelNodes[k].position
                  /\ CallsOf("set_node_size", SelNodes[k].index) = {}

\* C4: a size edit on several nodes whose typed size is below, in either
\* component, the held bounding size times min_ratio is rejected: the badge
\* of the size control is shown, nothing is issued and no node changes.
C4_RejectBelowLimit ==
    [][ (/\ last' = "OnSizeText"
         /\ Len(SelNodes) >= 2
         /\ ~bounding_rect.isNone
         /\ \A k \in DOMAIN SelNodes :
               ~RIsZero(SelNodes[k].size.x) /\ ~RIsZero(SelNodes[k].size.y)
         /\ parse_num_pair(typed').ok
         /\ LET min_nw == SeqMin([k \in DOMAIN SelNodes |-> SelNodes[k].size.x])
                min_nh == SeqMin([k \in DOMAIN SelNodes |-> SelNodes[k].size.y])
                lim_x  == RMul(bounding_rect.rect.size.x, RDiv(R(MinNodeWidth), min_nw))
                lim_y  == RMul(bounding_rect.rect.size.y, RDiv(R(MinNodeHeight), min_nh))
                size   == parse_num_pair(typed').v
            IN  RLt(size.x, lim_x) \/ RLt(size.y, lim_y))
        => (/\ badges'["size"]
            /\ calls' = <<>>
            /\ raised' = ""
            /\ ~pending'
            /\ nodes' = nodes
            /\ model' = model) ]_vars

\* C4 witness: nodes 1 and 2 selected (limit (4,3)), "4,1" typed: only the
\* height is below the limit, and the edit was rejected
C4_Witness ==
    /\ last = "OnSizeText"
    /\ selected_idx = {1, 2}
    /\ bounding_rect.rect.size = Vec2(R(8), R(6))
    /\ SelNodes[1].size = Vec2(R(4), R(4))
    /\ typed = PairText(4, 1)
    /\ badges["size"]
    /\ calls = <<>>

\* C5: with one node selected, a typed size whose width or height is below
\* the configured minimum shows the badge of the size control, issues
\* nothing, leaves _self_changes and the node as they were, and leaves the
\* typed text in the size control.
C5_RejectBelowMinimum ==
    [][ (/\ last' = "OnSizeText"
         /\ Len(SelNodes) = 1
         /\ parse_num_pair(typed').ok
         /\ \/ RLt(parse_num_pair(typed').v.x, R(MinNodeWidth))
            \/ RLt(parse_num_pair(typed').v.y, R(MinNodeHeight)))
        => (/\ badges'["size"]
            /\ calls' = <<>>
            /\ raised' = ""
            /\ ~pending'
            /\ self_changes' = self_changes
            /\ nodes' = nodes
            /\ model' = model
            /\ size_text' = typed') ]_vars

\* C5 witness: node 1 selected, "4,1" typed (height below the minimum 2)
C5_Witness ==
    /\ last = "OnSizeText"
    /\ selected_idx = {1}
    /\ typed = PairText(4, 1)
    /\ size_text = PairText(4, 1)
    /\ badges["size"]
    /\ calls = <<>>

\* C6: a size edit on several nodes of which one has width or height zero
\* ends without an exception and without a Controller call.
C6_ZeroSizeGuarded ==
    (/\ last = "OnSizeText"
     /\ Len(SelNodes) >= 2
     /\ parse_num_pair(typed).ok
     /\ \E k \in DOMAIN SelNodes :
           RIsZero(SelNodes[k].size.x) \/ RIsZero(SelNodes[k].size.y))
    => (raised = "" /\ calls = <<>>)

\* C7: a refresh that finds _self_changes set (in particular the
\* notification of a change a handler of the form made) does not run
\* UpdateAllFields; every refresh leaves _self_changes false; a refresh that
\* finds it false runs UpdateAllFields when the selection is not empty.
C7_EchoSuppressed ==
    [][ (last' = "Update") =>
          (/\ self_changes => ~repopulated'
           /\ pending => (self_changes /\ ~repopulated')
           /\ ~self_changes'
           /\ (~self_changes /\ selected_idx # {}) => repopulated') ]_vars

\* C7 witness: the refresh that followed an edit of the form left the
\* fields alone
C7_Witness ==
    /\ last = "Update"
    /\ selected_idx # {}
    /\ calls # <<>>
    /\ ~repopulated
    /\ ~self_changes


\* the last step was a handler of a form (an edit by the user)
IsEdit == last \notin {"init", "Update", "UpdateSelection"}
\* the positions in the log of the Controller's mutation calls
Mutations == {i \in DOMAIN calls : IsMutation(calls[i])}
\* the positions in the log of the calls fn
CallsTo(fn) == {i \in DOMAIN calls : calls[i].fn = fn}

\* C8: in every handler of every form, _self_changes is true when a
\* Controller mutation call is issued (it was set before the first one), and
\* it is true when the handler that issued a mutation call ends.
C8_FlagBeforeMutation ==
    /\ \A i \in Mutations : calls[i].flag
    /\ (IsEdit /\ Mutations # {}) => self_changes

\* a stoichiometry edit on the reaction form has issued its mutation call
C8_Witness ==
    /\ form = "reaction"
    /\ last = "SetSrcStoich"
    /\ \E i \in Mutations : calls[i].fn = "set_src_node_stoich" /\ calls[i].idx2 = 0

\* C9: an edit that issues more than one Controller mutation call issues
\* all of them between one start_group and its end_group: the edit has
\* exactly one start_group and one end_group and every mutation call lies
\* between the two.
C9_MultiCallGrouped ==
    Cardinality(Mutations) > 1 =>
        /\ Cardinality(CallsTo("start_group")) = 1
        /\ Cardinality(CallsTo("end_group")) = 1
        /\ \A m \in Mutations :
              /\ \A b \in CallsTo("start_group") : b < m
              /\ \A e \in CallsTo("end_group") : m < e

\* a position edit on two selected nodes has issued its two move_node calls
C9_Witness ==
    /\ last = "OnPosText"
    /\ Cardinality(selected_idx) = 2
    /\ Cardinality(CallsTo("move_node")) = 2
    /\ Cardinality(Mutations) = 2

\* C10: no group is opened, and no mutation is issued, for an edit that
\* changes nothing: an edit that called start_group or a mutation changed
\* the Controller's model.  Stated for the edits the claim is most generous
\* to: made with entities selected and ended without an exception.
C10_NoEmptyGroup ==
    (/\ IsEdit
     /\ selected_idx # {}
     /\ raised = ""
     /\ CallsTo("start_group") \cup Mutations # {}) => changed

\* C11: within the group of a multi-node resize the calls come node by node
\* in the order of the selected nodes: the k-th selected node's move_node is
\* call 2k of the edit and its set_node_size is call 2k+1, so a node's move
\* precedes its resize and no call for a later node precedes one for an
\* earlier node.
C11_ResizeCallOrder ==
    (last = "OnSizeText" /\ Len(SelNodes) >= 2 /\ calls # <<>>) =>
        \A k \in DOMAIN SelNodes :
            /\ 2 * k + 1 < Len(calls)
            /\ calls[2 * k].fn = "move_node"
            /\ calls[2 * k].idx = SelNodes[k].index
            /\ calls[2 * k + 1].fn = "set_node_size"
            /\ calls[2 * k + 1].idx = SelNodes[k].index

\* nodes 1 and 2 have been resized: move and resize of node 1, then of node 2
C11_Witness ==
    /\ last = "OnSizeText"
    /\ selected_idx = {1, 2}
    /\ Len(calls) = 6
    /\ calls[2].idx = 1 /\ calls[3].idx = 1
    /\ calls[4].idx = 2 /\ calls[5].idx = 2

\* the step is a handler of a form
EditStep == budget' = budget - 1 /\ last' \notin {"init", "Update", "UpdateSelection"}

\* the number typed into a float control is not a float or lies outside lo..hi
\* (hi < 0: no upper end; strict: lo itself is outside)
BadFloat(text, lo, hi, strict) ==
    \/ Len(text) # 1
    \/ ~text[1].num
    \/ RLt(text[1].val, lo)
    \/ strict /\ text[1].val = lo
    \/ ~RLt(hi, R(0)) /\ RLt(hi, text[1].val)

\* the text typed in the step fails the validation of its field
InvalidEdit ==
    \/ /\ last' = "OnPosText"
       /\ \/ ~parse_num_pair(typed').ok
          \/ RLt(parse_num_pair(typed').v.x, R(0))
          \/ RLt(parse_num_pair(typed').v.y, R(0))
    \/ last' = "OnSizeText" /\ ~parse_num_pair(typed').ok
    \/ /\ last' = "OnIdText" /\ Cardinality(selected_idx) = 1
       /\ (typed_id' = "" \/ \E i \in DOMAIN nodes : nodes[i].id_ = typed_id')
    \/ /\ last' = "ReactionOnIdText" /\ Cardinality(selected_idx) = 1
       /\ (typed_id' = "" \/ \E i \in DOMAIN reactions : reactions[i].id_ = typed_id')
    \/ /\ last' = "CompartmentOnIdText" /\ Cardinality(selected_idx) = 1
       /\ typed_id' = ""
    \/ /\ last' \in {"FillAlphaCallback", "BorderAlphaCallback",
                     "ReactionFillAlphaCallback"}
       /\ BadFloat(typed', R(0), R(1), FALSE)
    \/ last' = "BorderWidthCallback" /\ BadFloat(typed', R(1), R(100), FALSE)
    \/ last' = "StrokeWidthCallback" /\ BadFloat(typed', <<1, 10>>, R(100), FALSE)
    \/ /\ last' \in {"SetSrcStoich", "SetDestStoich"}
       /\ BadFloat(typed', R(0), R(-1), TRUE)

\* the badge of the control a handler belongs to
BadgeOf(op) ==
    IF op = "OnPosText" THEN "pos"
    ELSE IF op = "OnSizeText" THEN "size"
    ELSE IF op \in {"OnIdText", "ReactionOnIdText", "CompartmentOnIdText"} THEN "id"
    ELSE IF op \in {"FillAlphaCallback", "ReactionFillAlphaCallback"} THEN "fill_alpha"
    ELSE IF op = "BorderAlphaCallback" THEN "border_alpha"
    ELSE IF op = "BorderWidthCallback" THEN "border_width"
    ELSE IF op = "StrokeWidthCallback" THEN "stroke_width"
    ELSE IF op = "SetSrcStoich" THEN "src_stoich"
    ELSE "dest_stoich"

C13_BadgeSticky ==
    [][ \A c \in Ctrls :
            (badges[c] /\ ~badges'[c]) => (EditStep /\ BadgeOf(last') = c) ]_vars

\* the positions in the log of the rename calls the Controller refused
RefusedRenames ==
    {i \in DOMAIN calls :
        /\ calls[i].fn \in {"rename_node", "rename_reaction", "rename_compartment"}
        /\ ~calls[i].ok}

\* C14: when the Controller's rename call answers False, the form shows the
\* validation badge of the identifier field and the handler ends without an
\* exception: the refusal is neither ignored nor fatal.
C14_RenameRefusalShown ==
    (IsEdit /\ RefusedRenames # {}) => (badges["id"] /\ raised = "")

\* C15: with exactly one compartment selected, a typed identifier that is
\* not empty and that no compartment holds gives exactly one
\* rename_compartment call for the selected index and a valid field; one that
\* a compartment holds gives the badge and no call; the handler raises in
\* neither case.
C15_CompartmentRename ==
    (/\ last = "CompartmentOnIdText"
     /\ Cardinality(selected_idx) = 1
     /\ typed_id # "") =>
        /\ raised = ""
        /\ IF \E i \in DOMAIN compartments : compartments[i].id_ = typed_id
           THEN badges["id"] /\ calls = <<>>
           ELSE /\ ~badges["id"]
                /\ Len(calls) = 1
                /\ calls[1].fn = "rename_compartment"
                /\ calls[1].idx \in selected_idx
                /\ calls[1].str = typed_id

\* UpdateAllFields has just filled the controls of the form
Populated == repopulated /\ last \in {"Update", "UpdateSelection"}

\* the border widths (node form) or line thicknesses (reaction form) of the
\* selected entities
SelWidths ==
    IF form = "node" THEN {SelNodes[i].border_width : i \in DOMAIN SelNodes}
    ELSE {reactions[i].thickness : i \in {k \in DOMAIN reactions :
                                             reactions[k].index \in selected_idx}}

\* C16: the width field of a selection that is not empty shows the common
\* value exactly when all selected widths are equal after rounding to the
\* decimal precision (values that differ only beyond the precision count as
\* common), and '?' otherwise.
C16_WidthAggregation ==
    (Populated /\ form \in {"node", "reaction"}) =>
        LET rounded == {no_rzeros(v, DecimalPrecision) : v \in SelWidths}
        IN  fields.width_text =
                IF Cardinality(rounded) = 1
                THEN [mixed |-> FALSE, val |-> CHOOSE v \in rounded : TRUE]
                ELSE [mixed |-> TRUE, val |-> R(0)]

\* the fill colours of the selected nodes or reactions, the border colours of
\* the selected nodes
SelFills ==
    IF form = "node" THEN {SelNodes[i].fill_color : i \in DOMAIN SelNodes}
    ELSE {reactions[i].fill_color : i \in {k \in DOMAIN reactions :
                                              reactions[k].index \in selected_idx}}
SelBorders == {SelNodes[i].border_color : i \in DOMAIN SelNodes}

\* the colour control shows shown and the opacity control shown_alpha as the
\* aggregation of the colours cs requires
ColourAggregated(cs, shown, shown_alpha) ==
    LET rgbs   == {c.rgb : c \in cs}
        alphas == {c.alpha : c \in cs}
        a      == CHOOSE x \in alphas : TRUE
    IN  IF msw
        THEN /\ shown.rgb = IF Cardinality(rgbs) = 1 THEN CHOOSE x \in rgbs : TRUE
                            ELSE 0
             /\ shown_alpha.mixed = (Cardinality(alphas) # 1)
             /\ Cardinality(alphas) = 1 =>
                   shown_alpha.val = no_rzeros(Frac(a, 255), DecimalPrecision)
        ELSE /\ shown = IF Cardinality(cs) = 1 THEN CHOOSE c \in cs : TRUE
                        ELSE [rgb |-> 0, alpha |-> 255]
             /\ shown_alpha = [mixed |-> TRUE, val |-> R(0)]

\* C17: for a selection of several entities, on Windows the colour control
\* shows the common RGB if all RGBs are equal and black otherwise, and the
\* opacity control shows the common alpha if all alphas are equal and '?'
\* otherwise, each independently of the other; elsewhere the colour control
\* shows the common colour if all RGBA values are equal and black otherwise,
\* and no opacity is written.
C17_ColourAggregation ==
    (Populated /\ form \in {"node", "reaction"} /\ Cardinality(selected_idx) >= 2) =>
        /\ ColourAggregated(SelFills, fields.fill, fields.fill_alpha)
        /\ form = "node" =>
              ColourAggregated(SelBorders, fields.border, fields.border_alpha)

\* on Windows, nodes 1 and 2 selected: their fills have the RGB in common but
\* not the alpha, their borders the alpha but not the RGB
C17_Witness ==
    /\ Populated /\ msw /\ form = "node" /\ selected_idx = {1, 2}
    /\ fields.fill.rgb = 1 /\ fields.fill_alpha.mixed
    /\ fields.border.rgb = 0 /\ ~fields.border_alpha.mixed
    /\ Cardinality({c.rgb : c \in SelBorders}) = 2

\* the identifiers of the selected entities of the form
SelIds ==
    LET es == IF form = "node" THEN nodes
              ELSE IF form = "reaction" THEN reactions ELSE compartments
    IN  {es[i].id_ : i \in {k \in DOMAIN es : es[k].index \in selected_idx}}

\* C18: for a selection of several entities, in each of the three forms, the
\* identifier field lists the identifiers of the selected entities in sorted
\* order, whatever the order of the entity list.
C18_IdsSorted ==
    (Populated /\ Cardinality(selected_idx) >= 2) =>
        /\ Len(fields.id_text) = Cardinality(selected_idx)
        /\ {fields.id_text[i] : i \in DOMAIN fields.id_text} = SelIds
        /\ \A i, j \in DOMAIN fields.id_text :
              i < j => Rank(fields.id_text[i]) < Rank(fields.id_text[j])

\* a release that drops the dragged point (OnLeftUp while dragging, no failure)
DropStep == dragging /\ last' = "OnLeftUp" /\ raised' = ""

\* one axis of the grid snap, from the quotient and the remainder of p by c
SnapAxis(p, c) ==
    IF 2 * (p % c) < c THEN (p \div c) * c ELSE (p \div c) * c + c

\* C19: a release snaps each axis of the dragged pixel p on its own, to
\* floor(p/c)*c when p mod c < c/2 and to floor(p/c)*c + c otherwise, and the
\* dragged point takes the cell of that pixel; with c = 20 a release at
\* (51,39) lands on (60,40), cell (3,2).
C19_GridSnap ==
    [][DropStep =>
          LET p == dragged_point.p
              drop == Vec2(SnapAxis(p.x, csize), SnapAxis(p.y, csize))
          IN  /\ landing' = SomePoint(drop)
              /\ points'[hover_idx + 1] = Vec2(drop.x \div csize, drop.y \div csize)
              /\ (p = Vec2(51, 39) /\ csize = 20) =>
                     /\ landing'.p = Vec2(60, 40)
                     /\ points'[hover_idx + 1] = Vec2(3, 2)]_vars

\* the point that started in cell (2,1) was dragged to (51,39) and dropped
C19_Witness ==
    /\ last = "OnLeftUp"
    /\ raised = ""
    /\ ~dragging
    /\ dragged_point = SomePoint(Vec2(51, 39))
    /\ landing = SomePoint(Vec2(60, 40))
    /\ points[1] = Vec2(3, 2)

\* C20: an axis of the dragged pixel lying exactly half a cell past a grid
\* line (p mod c = c/2) lands on the lower line, floor(p/c)*c.
C20_TiesRoundDown ==
    [][DropStep =>
          LET p == dragged_point.p
          IN  /\ 2 * (p.x % csize) = csize => landing'.p.x = (p.x \div csize) * csize
              /\ 2 * (p.y % csize) = csize => landing'.p.y = (p.y \div csize) * csize]_vars

\* C21: projecting a projected pixel gives the same pixel, negative
\* coordinates included, and both coordinates of every projection are exact
\* multiples of the cell size.
C21_SnapIdempotent ==
    [][last' = "projected_landing" =>
          /\ landing'.p.x % csize = 0
          /\ landing'.p.y % csize = 0
          /\ last = "again" => landing'.p = dragged_point.p]_vars

\* a projection with a negative coordinate has been projected again
C21_Witness ==
    /\ last = "projected_landing"
    /\ budget = 0
    /\ landing.p.x < 0
    /\ landing.p.y > 0
    /\ landing = dragged_point

\* a release while the designer is dragging
ReleaseStep == dragging /\ last' = "OnLeftUp"

\* the distance between two numbers
Dist(a, b) == IF a < b THEN b - a ELSE a - b

\* C22: a release while dragging always commits (the handler does not fail
\* and the drag ends), and what it commits belongs to the current drag: when
\* the button was pressed and released with no move in between, the pointer
\* is still within radius of the point pressed on, so the committed cell is
\* at most one cell away from that point's cell on each axis.
C22_ReleaseCommits ==
    [][ReleaseStep =>
          /\ raised' = ""
          /\ ~dragging'
          /\ last = "OnLeftDown" =>
                /\ Dist(points'[hover_idx + 1].x, points[hover_idx + 1].x) <= 1
                /\ Dist(points'[hover_idx + 1].y, points[hover_idx + 1].y) <= 1]_vars

\* C23: in every state reached, dragged_point is set only while dragging is
\* true, and hover_idx changes only in steps that end not dragging.
C23_DragStateFields ==
    [][/\ ~dragging' => dragged_point'.isNone
       /\ hover_idx' # hover_idx => ~dragging']_vars

\* the points whose pixel centre is within radius of the pixel pos
Near(pts, pos) ==
    {i \in DOMAIN pts :
        (pos.x - pts[i].x * csize) * (pos.x - pts[i].x * csize)
            + (pos.y - pts[i].y * csize) * (pos.y - pts[i].y * csize)
        <= radius * radius}

\* C24: dragging starts only with a press while a point is hovered, a press
\* with no point hovered changes nothing of the drag state, the dragged index
\* stays the same while dragging, and a release while dragging ends not
\* dragging with the hover recomputed from the position of the release.
C24_DragTransitions ==
    [][/\ (~dragging /\ dragging') => (last' = "OnLeftDown" /\ hover_idx # -1)
       /\ (last' = "OnLeftDown" /\ hover_idx = -1) => UNCHANGED designer
       /\ (dragging /\ dragging') => hover_idx' = hover_idx
       /\ ReleaseStep =>
             /\ ~dragging'
             /\ (hover_idx' = -1) <=> (Near(points', pointer') = {})
             /\ hover_idx' # -1 => hover_idx' + 1 \in Near(points', pointer')]_vars

\* a move of the pointer while the designer is not dragging
HoverStep == ~dragging /\ last' = "OnMotion"

\* C25: after a move while not dragging, the hovered index is a point whose
\* pixel centre (cell * csize) is at squared distance at most radius^2 from
\* the pointer, and it is -1 exactly when there is no such point.
C25_HoverDetection ==
    [][HoverStep =>
          /\ (hover_idx' = -1) <=> (Near(points, pointer') = {})
          /\ hover_idx' # -1 => hover_idx' + 1 \in Near(points, pointer')]_vars

\* the pointer is exactly radius away from the first point, which is hovered
C25_Witness ==
    /\ last = "OnMotion"
    /\ ~dragging
    /\ pointer = Vec2(52, 20)
    /\ points[1] = Vec2(2, 1)
    /\ hover_idx = 0

\* C26: a move of the pointer never changes the points: while dragging only
\* dragged_point changes, to the pixel of the pointer as it is, and while not
\* dragging the cells stay as they are; painting (which computes the
\* projection of the dragged point) changes nothing the window keeps; among
\* the pointer events only a release changes the points.
C26_MoveKeepsPoints ==
    [][/\ last' = "OnMotion" =>
             /\ points' = points
             /\ dragging' = dragging
             /\ dragging => (dragged_point' = SomePoint(pointer') /\ hover_idx' = hover_idx)
             /\ ~dragging => dragged_point' = dragged_point
       /\ last' = "OnPaint" =>
             UNCHANGED <<points, hover_idx, dragged_point, dragging>>
       /\ (points' # points /\ last' # "update_arrow_tip") => last' = "OnLeftUp"]_vars

\* the pointer moved to (51,39) while dragging the point of cell (2,1), and
\* the projection (60,40) was painted: the point is still in its cell
C26_Witness ==
    /\ last = "OnPaint"
    /\ dragging
    /\ hover_idx = 0
    /\ dragged_point = SomePoint(Vec2(51, 39))
    /\ landing = SomePoint(Vec2(60, 40))
    /\ points[1] = Vec2(2, 1)

\* C29: whenever the designer is dragging, hover_idx is the index of a point
\* (0..3) and dragged_point is set, so that no release and no paint fails an
\* assertion, whatever the presses, moves, releases, paints and restored
\* arrow tips before.
C29_DragAssertions ==
    /\ dragging => (hover_idx \in 0..3 /\ ~dragged_point.isNone)
    /\ last \in {"OnLeftUp", "OnPaint"} => raised = ""

\* the rectangle with the given position and size lies within the canvas
InCanvas(pos, size) ==
    /\ RLe(R(0), pos.x)
    /\ RLe(R(0), pos.y)
    /\ RLe(RAdd(pos.x, size.x), R(CanvasSize))
    /\ RLe(RAdd(pos.y, size.y), R(CanvasSize))

\* C27: with one node selected, a position edit passes move_node a position
\* at which the node's rectangle, its size as it was, lies within the canvas,
\* and passes the typed position itself when the rectangle at the typed
\* position already does; a size edit passes set_node_size a size with which
\* the rectangle at the node's position does not reach past the canvas.
C27_SingleNodeClamped ==
    (last \in {"OnPosText", "OnSizeText"} /\ raised = "" /\ Len(SelNodes) = 1) =>
        LET node == SelNodes[1]
        IN  /\ last = "OnPosText" =>
                  /\ CallsTo("set_node_size") = {}
                  /\ \A i \in CallsTo("move_node") :
                        /\ calls[i].idx = node.index
                        /\ InCanvas(calls[i].vec, node.size)
                        /\ InCanvas(TypedVec, node.size) => calls[i].vec = TypedVec
            /\ last = "OnSizeText" =>
                  /\ CallsTo("move_node") = {}
                  /\ \A i \in CallsTo("set_node_size") :
                        /\ calls[i].idx = node.index
                        /\ RLe(RAdd(node.position.x, calls[i].vec.x), R(CanvasSize))
                        /\ RLe(RAdd(node.position.y, calls[i].vec.y), R(CanvasSize))

\* one node selected, a position typed that lies outside the canvas: the
\* node was moved to another position than the typed one
C27_Witness ==
    /\ Len(SelNodes) = 1
    /\ last = "OnPosText"
    /\ raised = ""
    /\ ~InCanvas(TypedVec, SelNodes[1].size)
    /\ \E i \in CallsTo("move_node") : calls[i].vec # TypedVec

\* C28: a position or size edit that arrives while no node is selected does
\* not read the bounding rectangle: it ends without an exception, whether or
\* not several nodes were ever selected, and issues no call computed from it.
C28_NoBoundingRectWhenEmpty ==
    (last \in {"OnPosText", "OnSizeText"} /\ selected_idx = {}) =>
        (raised = "" /\ calls = <<>>)

\* the number of groups open after the first n calls of the log, counted
\* from the groups open when the handler started
RECURSIVE OpenAfter(_, _)
OpenAfter(before, n) ==
    IF n = 0 THEN before
    ELSE IF calls[n].fn = "start_group" THEN OpenAfter(before, n - 1) + 1
    ELSE IF calls[n].fn = "end_group" THEN OpenAfter(before, n - 1) - 1
    ELSE OpenAfter(before, n - 1)

\* C30: in every handler of every form and on both platforms each
\* start_group is closed by one end_group before the handler returns: along
\* the calls of a handler at most one group is open, none is closed that was
\* not opened, and none is open when the handler ends.
C30_GroupsBalanced ==
    /\ group_depth = 0
    /\ IsEdit => /\ \A n \in 0..Len(calls) : OpenAfter(0, n) \in {0, 1}
                 /\ OpenAfter(0, Len(calls)) = 0

\* the log of a colour pick as the claim has it: one group holding, for each
\* of the entities idxs in order, the RGB setter and, unless the platform has
\* separate alpha fields, the alpha setter with the alpha of the colour c
RECURSIVE ColourLog(_, _, _, _)
ColourLog(idxs, rgb_fn, alpha_fn, c) ==
    IF idxs = <<>> THEN <<>>
    ELSE (IF msw THEN << <<rgb_fn, Head(idxs), R(c.rgb)>> >>
          ELSE << <<rgb_fn, Head(idxs), R(c.rgb)>>,
                  <<alpha_fn, Head(idxs), R(c.alpha)>> >>)
         \o ColourLog(Tail(idxs), rgb_fn, alpha_fn, c)

\* the calls of the log, each as function, entity and number
LogOf(cs) == [i \in DOMAIN cs |-> <<cs[i].fn, cs[i].idx, cs[i].val>>]

\* the indices of the selected entities of the node or reaction form
SelIdxs ==
    LET es == IF form = "node" THEN nodes ELSE reactions
        F[i \in 0..Len(es)] ==
            IF i = 0 THEN <<>>
            ELSE IF es[i].index \in selected_idx THEN Append(F[i - 1], es[i].index)
            ELSE F[i - 1]
    IN  F[Len(es)]

\* the log of a colour pick with the setters rgb_fn and alpha_fn is as C31
\* has it for one of the colours
ColourPicked(rgb_fn, alpha_fn) ==
    /\ raised = ""
    /\ \E c \in ColourPicks :
          LogOf(calls) = << <<"start_group", -1, R(0)>> >>
                         \o ColourLog(SelIdxs, rgb_fn, alpha_fn, c)
                         \o << <<"end_group", -1, R(0)>> >>

\* C31: a fill or border colour picked for the selected nodes (or a fill
\* colour for the selected reactions) issues one group with, for each
\* selected entity, the RGB setter followed by the alpha setter with the
\* colour's alpha where alpha is part of the colour, and the RGB setter alone
\* where the platform has separate alpha fields.
C31_ColourPickCalls ==
    /\ last = "OnFillColorChanged" =>
          ColourPicked("set_node_fill_rgb", "set_node_fill_alpha")
    /\ last = "OnBorderColorChanged" =>
          ColourPicked("set_node_border_rgb", "set_node_border_alpha")
    /\ last = "ReactionOnFillColorChanged" =>
          ColourPicked("set_reaction_fill_rgb", "set_reaction_fill_alpha")

\* C32: _self_changes is set only from a mutation the form issued until the
\* refresh that mutation causes, so a refresh caused by something else (none
\* was outstanding) repopulates the fields whenever the selection is not
\* empty; in particular the flag is not left set by a handler whose mutation
\* the Controller refused, that raised, or that caused no refresh.
C32_FlagOnlyUntilEcho ==
    [][/\ self_changes' => pending'
       /\ (last' = "Update" /\ ~pending /\ selected_idx # {}) => repopulated']_vars

\* the entries of the log just written that are posted DidMoveNodesEvents
MoveEvents == {i \in DOMAIN calls' : calls'[i].fn = "DidMoveNodesEvent"}

\* C37: a position text edit that goes ahead posts one DidMoveNodesEvent,
\* after start_group and before every move_node call, and the offset it
\* carries is the displacement of every selected node: its position after
\* the edit minus its position before, with one node selected or several.
C37_MoveEventOffset ==
    [][(last' = "OnPosText" /\ calls' # <<>>) =>
         \E e \in MoveEvents :
            /\ MoveEvents = {e}
            /\ calls'[1].fn = "start_group" /\ 1 < e
            /\ \A i \in DOMAIN calls' : calls'[i].fn = "move_node" => e < i
            /\ \A k \in DOMAIN nodes :
                  nodes[k].index \in selected_idx =>
                     calls'[e].vec = VSub(nodes'[k].position, nodes[k].position)]_vars

\* C35: the nodes start within the canvas, and after every accepted position
\* or size text edit, with one node selected or several and whatever edits
\* and suppressed refreshes came before, the positions and sizes sent to the
\* Controller leave the rectangle of every selected node within the canvas.
C35_EditsStayInCanvas ==
    (last \in {"OnPosText", "OnSizeText"} /\ raised = "" /\ calls # <<>>) =>
        \A i \in DOMAIN model :
            model[i].index \in selected_idx =>
                InCanvas(model[i].position, model[i].size)
(***************************************************************************)
(* The node form driven far enough for a move against a stale bounding     *)
(* rectangle to be followed by a resize: two position edits and one size   *)
(* edit.                                                                   *)
(***************************************************************************)
MaxClampEdits == 3

InitClamp ==
    /\ form = "node"
    /\ msw = FALSE
    /\ budget = MaxClampEdits
    /\ InitForm
    /\ InitDesigner

NextClamp ==
    \/ \E sel \in {{1}, {1, 2}} : UpdateSelection(sel)
    \/ EchoRefresh
    \/ OnPosText(PairText(20, 20))
    \/ OnSizeText(PairText(4, 3))

SpecClamp == InitClamp /\ [][NextClamp]_vars


C34_ReleaseFrame ==
    [][last' = "OnLeftUp" =>
         IF dragging
         THEN /\ Len(points') = 4
              /\ \A i \in 1..4 : i # hover_idx + 1 => points'[i] = points[i]
              /\ raised' = "" =>
                    /\ hover_idx + 1 \in 1..4
                    /\ points'[hover_idx + 1] =
                          Vec2(landing'.p.x \div csize, landing'.p.y \div csize)
         ELSE UNCHANGED <<points, hover_idx, dragged_point, dragging, landing>>]_vars

\* a release has moved the first control point and no other
C34_Witness ==
    /\ last = "OnLeftUp"
    /\ raised = ""
    /\ ~dragging
    /\ points[1] # DefaultTip[1]
    /\ \A i \in 2..4 : points[i] = DefaultTip[i]

\* C33: Save stores the arrow tip the designer's window shows and edits:
\* whatever drags and Restore default came before, the points passed to
\* set_arrow_tip by Save are the window's current control points.
C33_SaveStoresShownTip ==
    [][last' = "OnSave" => saved' = points']_vars

====
